---- MODULE Spec2Model ----
(***************************************************************************)
(* Deploy construction, canonical serialization, hashing and signing of    *)
(* packages/sdk/src/lib/DeployUtil.ts, with the Option encoder of          *)
(* option.ts.                                                              *)
(*                                                                         *)
(* Byte strings are sequences of 0..255.  JavaScript strings are sequences *)
(* of character codes (ASCII, so one code is one UTF-8 byte).  JSON member *)
(* names are TLA+ strings.                                                 *)
(***************************************************************************)
EXTENDS Integers, Sequences, FiniteSets, TLC

\* The fields of the records of this module, numbered.  TLC keeps the fields
\* of a record in the order in which it first met their names, and sorts a
\* record written in another order where it is first compared: they are
\* named here once, in the order in which the records below list them.
FieldOrder ==
    [js |-> 1, message |-> 2, Ed25519 |-> 3, Secp256K1 |-> 4, rawPublicKey
     |-> 5, tag |-> 6, publicKey |-> 7, privateKey |-> 8,
     signatureAlgorithm |-> 9, encoding |-> 10, bytes |-> 11, clType |->
     12, uRefAddr |-> 13, accessRights |-> 14, t |-> 15, innerType |-> 16,
     moduleBytes |-> 17, storedContractByHash |-> 18, storedContractByName
     |-> 19, storedVersionedContractByHash |-> 20,
     storedVersionedContractByName |-> 21, transfer |-> 22, account |->
     23, accountPublicKey |-> 24, signer |-> 25, signature |-> 26, ok |->
     27, op |-> 28, threw |-> 29, deploy |-> 30, key |-> 31, name |-> 32,
     hash |-> 33, version |-> 34, entryPoint |-> 35, args |-> 36, header
     |-> 37, via |-> 38, given |-> 39, sig |-> 40, of |-> 41, from |-> 42,
     lib |-> 43, value |-> 44, amount |-> 45, target |-> 46, sourcePurse
     |-> 47, id |-> 48, ModuleBytes |-> 49, StoredContractByHash |-> 50,
     StoredContractByName |-> 51, StoredVersionedContractByHash |-> 52,
     StoredVersionedContractByName |-> 53, Transfer |-> 54, timestamp |->
     55, ttl |-> 56, gas_price |-> 57, body_hash |-> 58, gasPrice |-> 59,
     bodyHash |-> 60, dependencies |-> 61, chainName |-> 62, chain_name
     |-> 63, at |-> 64, payment |-> 65, session |-> 66, approvals |-> 67,
     model |-> 68,
     state |-> 69,
     event |-> 70,
     stores |-> 71,
     awaits |-> 72,
     raw |-> 73,
     handler |-> 74,
     called |-> 75,
     pubsub |-> 76,
     withGenesisAccountsTracking |-> 77,
     genesisAccountHashesMap |-> 78,
     deploy_hash |-> 79,
     execution_result |-> 80,
     Success |-> 81,
     Failure |-> 82,
     error_message |-> 83,
     transfers |-> 84,
     effect |-> 85,
     transforms |-> 86,
     transform |-> 87,
     WriteTransfer |-> 88,
     WriteBid |-> 89,
     WriteWithdraw |-> 90,
     to |-> 91,
     block |-> 92,
     height |-> 93,
     era_end |-> 94,
     era_id |-> 95,
     next_era_validator_weights |-> 96,
     seigniorage_allocations |-> 97,
     Validator |-> 98,
     Delegator |-> 99,
     block_hash |-> 100,
     validator_public_key |-> 101,
     delegator_public_key |-> 102]

VARIABLES
    heap,       \* the Deploy objects built so far, in order of construction
    lists,      \* the Approval[] arrays on the JS heap; a Deploy holds an index
    assembled,  \* per Deploy, the value makeDeploy returned (history)
    calls,      \* the signDeploy / setSignature calls made so far (history)
    ret,        \* what the last call returned (or threw)
    clock,      \* Date.now()
    given,      \* the arguments of the last new DeployParams(...) and its time (history)
    made,       \* per Deploy, the arguments and the time of its makeDeploy call (history)
    params,     \* the DeployParams object the caller holds
    wrapper,    \* the ExecutableDeployItemJsonWrapper the caller holds
    json,       \* the JSON text the caller holds, as the object it denotes
    option,     \* the last new Option(t, innerType): its arguments and the object
    storage,    \* the Storage object: pubsub and the genesis accounts it tracks
    db,         \* the rows of the tables behind storage.models
    promises,   \* the promises of the create and getEraInfo calls made so far
    events      \* the events onEvent was called with, in order (history)

vars == <<heap, lists, assembled, calls, ret, clock, given, made, params, wrapper, json,
          option, storage, db, promises, events>>

(***************************************************************************)
(* Bounds of the model.                                                    *)
(***************************************************************************)
MaxDeploys == 2
MaxCalls == 2
MaxEvents == 2
MaxStreamEvents == 1
MaxStoreEvents == 2
MaxFaults == 1
PoolMax == 2

(***************************************************************************)
(* JavaScript's undefined and null, and a thrown Error.                    *)
(***************************************************************************)
Undefined == [js |-> "undefined"]
Null == [js |-> "null"]
Num(n) == [js |-> "number", value |-> n]
\* how a call that gives bytes, text or an array ends: it returns or throws
Ok(v) == [js |-> "return", value |-> v]
Thrown(msg) == [js |-> "throw", message |-> msg]
\* !v for a value that is undefined, null or a number
Falsy(v) == v = Undefined \/ v = Null \/ v = Num(0)
IsThrown(v) == "js" \in DOMAIN v /\ v.js = "throw"

(***************************************************************************)
(* byterepr.ts: little-endian fixed-width integers, length-prefixed byte   *)
(* arrays and strings, raw fixed-size arrays, counted vectors.             *)
(***************************************************************************)
RECURSIVE LittleEndian(_, _)
LittleEndian(n, width) ==
    IF width = 0 THEN <<>>
    ELSE <<n % 256>> \o LittleEndian(n \div 256, width - 1)

RECURSIVE FromLittleEndian(_)
FromLittleEndian(bytes) ==
    IF bytes = <<>> THEN 0
    ELSE bytes[1] + 256 * FromLittleEndian(Tail(bytes))

RECURSIVE Flatten(_)
Flatten(seqs) ==
    IF seqs = <<>> THEN <<>> ELSE seqs[1] \o Flatten(Tail(seqs))

concat(seqs) == Flatten(seqs)

toBytesU32(n) == LittleEndian(n, 4)

toBytesU64(n) == LittleEndian(n, 8)

toBytesArrayU8(arr) == toBytesU32(Len(arr)) \o arr

toBytesBytesArray(arr) == arr

toBytesDeployHash(hash) == toBytesBytesArray(hash)

toBytesString(str) == toBytesArrayU8(str)

\* `vec` holds the elements' own encodings.
toBytesVecT(vec) == toBytesU32(Len(vec)) \o Flatten(vec)

(***************************************************************************)
(* Conversions.ts: base-16 text, two lower-case digits per byte.           *)
(***************************************************************************)
HexDigits == <<48, 49, 50, 51, 52, 53, 54, 55, 56, 57, 97, 98, 99, 100, 101, 102>>

encodeBase16(bytes) ==
    [i \in 1..(2 * Len(bytes)) |->
        IF i % 2 = 1 THEN HexDigits[(bytes[(i + 1) \div 2] \div 16) + 1]
        ELSE HexDigits[(bytes[i \div 2] % 16) + 1]]

HexValue(c) == CHOOSE v \in 0..15 : HexDigits[v + 1] = c

decodeBase16(str) ==
    [i \in 1..(Len(str) \div 2) |->
        16 * HexValue(str[2 * i - 1]) + HexValue(str[2 * i])]

(***************************************************************************)
(* blakejs: blake2b(input, null, outlen).  The digest is an opaque         *)
(* function of the input bytes; it is modelled by a position-weighted      *)
(* checksum spread over outlen bytes, so that it depends on the content,   *)
(* the order and the length of the input.                                  *)
(***************************************************************************)
DigestLen == 32

RECURSIVE WeightedSum(_, _, _)
WeightedSum(bytes, lo, hi) ==
    IF lo > hi THEN 0
    ELSE IF lo = hi THEN (bytes[lo] * (lo * lo + 2 * lo + 3)) % 65521
    ELSE LET mid == (lo + hi) \div 2
         IN  (WeightedSum(bytes, lo, mid) + WeightedSum(bytes, mid + 1, hi)) % 65521

blake2b(input, outlen) ==
    LET s == WeightedSum(input, 1, Len(input))
        n == Len(input)
    IN  [i \in 1..outlen |-> (s \div i + 7 * n + 31 * i) % 256]

(***************************************************************************)
(* Keys.ts: the two signature algorithms, their tagged hex renderings,     *)
(* public keys and signing key pairs.                                      *)
(***************************************************************************)
SignatureAlgorithm == [Ed25519 |-> "ed25519", Secp256K1 |-> "secp256K1"]

\* Keys.Ed25519.accountHex: '01' + base16
Ed25519_accountHex(bytes) == <<48, 49>> \o encodeBase16(bytes)

\* Keys.Secp256K1.accountHex: '02' + base16
Secp256K1_accountHex(bytes) == <<48, 50>> \o encodeBase16(bytes)

PublicKey(rawPublicKey, tag) == [rawPublicKey |-> rawPublicKey, tag |-> tag]

PublicKey_signatureAlgorithm(pk) ==
    IF pk.tag = 1 THEN SignatureAlgorithm.Ed25519 ELSE SignatureAlgorithm.Secp256K1

PublicKey_toAccountHex(pk) ==
    IF pk.tag = 1 THEN Ed25519_accountHex(pk.rawPublicKey)
    ELSE Secp256K1_accountHex(pk.rawPublicKey)

PublicKey_toBytes(pk) == <<pk.tag>> \o toBytesBytesArray(pk.rawPublicKey)

\* blake2b(algorithm name ++ 0 ++ raw key), 32 bytes
PublicKey_toAccountHash(pk) ==
    blake2b(<<pk.tag, 0>> \o pk.rawPublicKey, DigestLen)

AsymmetricKey(publicKey, privateKey, alg) ==
    [publicKey |-> publicKey, privateKey |-> privateKey, signatureAlgorithm |-> alg]

AsymmetricKey_accountHex(key) == PublicKey_toAccountHex(key.publicKey)

\* The signature is an opaque function of the private key and the message.
AsymmetricKey_sign(key, msg) == blake2b(key.privateKey \o msg, 4)

(***************************************************************************)
(* CLValue.ts: typed values that serialize themselves.  A typed value is   *)
(* its bytes and the encoding of its type.                                 *)
(***************************************************************************)
CLType(encoding) == [encoding |-> encoding]
CLTypeHelper_u32 == CLType(<<4>>)
CLTypeHelper_u64 == CLType(<<5>>)
CLTypeHelper_u512 == CLType(<<8>>)
CLTypeHelper_uref == CLType(<<12>>)
CLTypeHelper_option(inner) == CLType(<<13>> \o inner.encoding)
CLTypeHelper_byteArray(size) == CLType(<<15>> \o toBytesU32(size))

Typed(bytes, clType) == [bytes |-> bytes, clType |-> clType]

U32(n) == Typed(toBytesU32(n), CLTypeHelper_u32)

CLTypedAndToBytesHelper_u64(n) == Typed(toBytesU64(n), CLTypeHelper_u64)

RECURSIVE MinimalLittleEndian(_)
MinimalLittleEndian(n) ==
    IF n = 0 THEN <<>> ELSE <<n % 256>> \o MinimalLittleEndian(n \div 256)

\* a big number: one length byte, then the little-endian bytes without
\* trailing zeros
CLValue_u512(n) ==
    LET le == MinimalLittleEndian(n)
    IN  Typed(<<Len(le)>> \o le, CLTypeHelper_u512)

URef(uRefAddr, accessRights) == [uRefAddr |-> uRefAddr, accessRights |-> accessRights]

\* x instanceof URef, x instanceof PublicKey
InstanceOfURef(x) == "uRefAddr" \in DOMAIN x
InstanceOfPublicKey(x) == "rawPublicKey" \in DOMAIN x

CLValue_uref(u) == Typed(u.uRefAddr \o <<u.accessRights>>, CLTypeHelper_uref)

CLValue_byteArray(bytes) == Typed(bytes, CLTypeHelper_byteArray(Len(bytes)))

(***************************************************************************)
(* option.ts                                                               *)
(***************************************************************************)
OPTION_TAG_NONE == 0
OPTION_TAG_SOME == 1

\* a constructor that asks for the type of a present value as well
Option_typeAlways(t, innerType) ==
    IF innerType = Undefined
    THEN Thrown("You had to assign innerType for None")
    ELSE IF t = Null THEN [t |-> t, innerType |-> innerType]
    ELSE [t |-> t, innerType |-> t.clType]

\* new Option(t, innerType): t is a typed value or Null, innerType a type
\* or Undefined
Option(t, innerType) ==
    IF t = Null
    THEN IF innerType = Undefined
         THEN Thrown("You had to assign innerType for None")
         ELSE [t |-> t, innerType |-> innerType]
    ELSE [t |-> t, innerType |-> t.clType]

Option_isNone(o) == o.t = Null

Option_isSome(o) == o.t # Null

\* the type of the value written after the tag
Option_toBytes_typed(o) ==
    IF o.t = Null THEN <<OPTION_TAG_NONE>> \o o.innerType.encoding
    ELSE concat(<<(<<OPTION_TAG_SOME>>), o.innerType.encoding, o.t.bytes>>)

Option_toBytes(o) ==
    IF o.t = Null THEN <<OPTION_TAG_NONE>>
    ELSE concat(<<(<<OPTION_TAG_SOME>>), o.t.bytes>>)

Option_clType(o) == CLTypeHelper_option(o.innerType)

CLValue_option(t, innerType) ==
    LET o == Option(t, innerType)
    IN  Typed(Option_toBytes(o), Option_clType(o))

(***************************************************************************)
(* RuntimeArgs.ts: the ordered argument map.  It is a sequence of          *)
(* [name, value] entries in insertion order; inserting under a name that   *)
(* is present replaces that entry's value in place.                        *)
(***************************************************************************)
RuntimeArgs_fromMap(entries) == entries

RuntimeArgs_has(args, name) == \E i \in 1..Len(args) : args[i].name = name

RuntimeArgs_insert(args, name, value) ==
    IF RuntimeArgs_has(args, name)
    THEN [i \in 1..Len(args) |->
            IF args[i].name = name THEN [name |-> name, value |-> value] ELSE args[i]]
    ELSE Append(args, [name |-> name, value |-> value])

\* this.args.args[argName]
RuntimeArgs_get(args, name) ==
    IF RuntimeArgs_has(args, name)
    THEN (args[CHOOSE i \in 1..Len(args) : args[i].name = name]).value
    ELSE Undefined

CLValue_toBytes(v) == toBytesArrayU8(v.bytes) \o v.clType.encoding

RuntimeArgs_toBytes(args) ==
    toBytesVecT([i \in 1..Len(args) |->
        toBytesString(args[i].name) \o CLValue_toBytes(args[i].value)])

(***************************************************************************)
(* The six ExecutableDeployItem classes.  A nullable number (version, id)  *)
(* is Null or Num(n).                                                      *)
(***************************************************************************)
ModuleBytes(moduleBytes, args) ==
    [tag |-> 0, moduleBytes |-> moduleBytes, args |-> args]

ModuleBytes_toBytes(this) ==
    concat(<<
        <<this.tag>>,
        toBytesArrayU8(this.moduleBytes),
        toBytesArrayU8(RuntimeArgs_toBytes(this.args))
    >>)

StoredContractByHash(hash, entryPoint, args) ==
    [tag |-> 1, hash |-> hash, entryPoint |-> entryPoint, args |-> args]

\* the entry point written before the hash
StoredContractByHash_toBytes_entryPointFirst(this) ==
    concat(<<
        <<this.tag>>,
        toBytesString(this.entryPoint),
        toBytesBytesArray(this.hash),
        toBytesArrayU8(RuntimeArgs_toBytes(this.args))
    >>)

StoredContractByHash_toBytes(this) ==
    concat(<<
        <<this.tag>>,
        toBytesBytesArray(this.hash),
        toBytesString(this.entryPoint),
        toBytesArrayU8(RuntimeArgs_toBytes(this.args))
    >>)

StoredContractByName(name, entryPoint, args) ==
    [tag |-> 2, name |-> name, entryPoint |-> entryPoint, args |-> args]

StoredContractByName_toBytes(this) ==
    concat(<<
        <<this.tag>>,
        toBytesString(this.name),
        toBytesString(this.entryPoint),
        toBytesArrayU8(RuntimeArgs_toBytes(this.args))
    >>)

StoredVersionedContractByName(name, version, entryPoint, args) ==
    [tag |-> 4, name |-> name, version |-> version, entryPoint |-> entryPoint,
     args |-> args]

\* the serializedVersion of both versioned classes
SerializedVersion(version) ==
    IF version = Null
    THEN Option(Null, CLTypeHelper_u32)
    ELSE Option(U32(version.value), Undefined)

\* the tag of the by-hash class written in place of this.tag
StoredVersionedContractByName_toBytes_tagOfByHash(this) ==
    concat(<<
        <<3>>,
        toBytesString(this.name),
        Option_toBytes(SerializedVersion(this.version)),
        toBytesString(this.entryPoint),
        toBytesArrayU8(RuntimeArgs_toBytes(this.args))
    >>)

StoredVersionedContractByName_toBytes(this) ==
    concat(<<
        <<this.tag>>,
        toBytesString(this.name),
        Option_toBytes(SerializedVersion(this.version)),
        toBytesString(this.entryPoint),
        toBytesArrayU8(RuntimeArgs_toBytes(this.args))
    >>)

StoredVersionedContractByHash(hash, version, entryPoint, args) ==
    [tag |-> 3, hash |-> hash, version |-> version, entryPoint |-> entryPoint,
     args |-> args]

StoredVersionedContractByHash_toBytes(this) ==
    concat(<<
        <<this.tag>>,
        toBytesBytesArray(this.hash),
        Option_toBytes(SerializedVersion(this.version)),
        toBytesString(this.entryPoint),
        toBytesArrayU8(RuntimeArgs_toBytes(this.args))
    >>)

\* argument names
Str_amount == <<97, 109, 111, 117, 110, 116>>
Str_source == <<115, 111, 117, 114, 99, 101>>
Str_target == <<116, 97, 114, 103, 101, 116>>
Str_id == <<105, 100>>

\* no check of the target: a Transfer without one is built all the same
Transfer_withoutTargetCheck(amount, target, sourcePurse, id) ==
    LET a1 == RuntimeArgs_insert(RuntimeArgs_fromMap(<<>>), Str_amount, CLValue_u512(amount))
        a2 == IF sourcePurse # Undefined
              THEN RuntimeArgs_insert(a1, Str_source, CLValue_uref(sourcePurse))
              ELSE a1
        a3 == IF InstanceOfURef(target)
              THEN RuntimeArgs_insert(a2, Str_target, CLValue_uref(target))
              ELSE IF InstanceOfPublicKey(target)
              THEN RuntimeArgs_insert(a2, Str_target,
                       CLValue_byteArray(PublicKey_toAccountHash(target)))
              ELSE a2
        a4 == IF Falsy(id)
              THEN RuntimeArgs_insert(a3, Str_id, CLValue_option(Null, CLTypeHelper_u64))
              ELSE RuntimeArgs_insert(a3, Str_id,
                       CLValue_option(CLTypedAndToBytesHelper_u64(id.value), CLTypeHelper_u64))
    IN  [tag |-> 5, args |-> a4]

\* the public key itself as the target argument
Transfer_keyAsTarget(amount, target, sourcePurse, id) ==
    LET a1 == RuntimeArgs_insert(RuntimeArgs_fromMap(<<>>), Str_amount, CLValue_u512(amount))
        a2 == IF sourcePurse # Undefined
              THEN RuntimeArgs_insert(a1, Str_source, CLValue_uref(sourcePurse))
              ELSE a1
        a3 == IF InstanceOfURef(target)
              THEN RuntimeArgs_insert(a2, Str_target, CLValue_uref(target))
              ELSE RuntimeArgs_insert(a2, Str_target, CLValue_byteArray(target.rawPublicKey))
        a4 == IF Falsy(id)
              THEN RuntimeArgs_insert(a3, Str_id, CLValue_option(Null, CLTypeHelper_u64))
              ELSE RuntimeArgs_insert(a3, Str_id,
                       CLValue_option(CLTypedAndToBytesHelper_u64(id.value), CLTypeHelper_u64))
    IN  IF ~InstanceOfURef(target) /\ ~InstanceOfPublicKey(target)
        THEN Thrown("Please specify target")
        ELSE [tag |-> 5, args |-> a4]

\* new Transfer(amount, target, sourcePurse, id): the item, or the Error thrown
Transfer(amount, target, sourcePurse, id) ==
    LET a1 == RuntimeArgs_insert(RuntimeArgs_fromMap(<<>>), Str_amount, CLValue_u512(amount))
        a2 == IF sourcePurse # Undefined
              THEN RuntimeArgs_insert(a1, Str_source, CLValue_uref(sourcePurse))
              ELSE a1
        a3 == IF InstanceOfURef(target)
              THEN RuntimeArgs_insert(a2, Str_target, CLValue_uref(target))
              ELSE RuntimeArgs_insert(a2, Str_target,
                       CLValue_byteArray(PublicKey_toAccountHash(target)))
        a4 == IF Falsy(id)
              THEN RuntimeArgs_insert(a3, Str_id, CLValue_option(Null, CLTypeHelper_u64))
              ELSE RuntimeArgs_insert(a3, Str_id,
                       CLValue_option(CLTypedAndToBytesHelper_u64(id.value), CLTypeHelper_u64))
    IN  IF ~InstanceOfURef(target) /\ ~InstanceOfPublicKey(target)
        THEN Thrown("Please specify target")
        ELSE [tag |-> 5, args |-> a4]

Transfer_toBytes(this) ==
    concat(<<
        <<this.tag>>,
        toBytesArrayU8(RuntimeArgs_toBytes(this.args))
    >>)

\* item.toBytes(), dispatched on the item's class
ExecutableDeployItem_toBytes(item) ==
    CASE item.tag = 0 -> ModuleBytes_toBytes(item)
      [] item.tag = 1 -> StoredContractByHash_toBytes(item)
      [] item.tag = 2 -> StoredContractByName_toBytes(item)
      [] item.tag = 3 -> StoredVersionedContractByHash_toBytes(item)
      [] item.tag = 4 -> StoredVersionedContractByName_toBytes(item)
      [] item.tag = 5 -> Transfer_toBytes(item)

ExecutableDeployItem_getArgByName(item, argName) == RuntimeArgs_get(item.args, argName)

(***************************************************************************)
(* ExecutableDeployItemJsonWrapper: six optional slots.                    *)
(***************************************************************************)
SlotNames ==
    <<"moduleBytes", "storedContractByHash", "storedContractByName",
      "storedVersionedContractByHash", "storedVersionedContractByName", "transfer">>

\* new ExecutableDeployItemJsonWrapper()
ExecutableDeployItemJsonWrapper ==
    [moduleBytes |-> Undefined,
     storedContractByHash |-> Undefined,
     storedContractByName |-> Undefined,
     storedVersionedContractByHash |-> Undefined,
     storedVersionedContractByName |-> Undefined,
     transfer |-> Undefined]

isModuleBytes(w) == w.moduleBytes # Undefined
asModuleBytes(w) == w.moduleBytes
isStoredContractByHash(w) == w.storedContractByHash # Undefined
asStoredContractByHash(w) == w.storedContractByHash
isStoredContractByName(w) == w.storedContractByName # Undefined
asStoredContractByName(w) == w.storedContractByName
isStoredVersionContractByName(w) == w.storedVersionedContractByName # Undefined
asStoredVersionContractByName(w) == w.storedVersionedContractByName
isStoredVersionContractByHash(w) == w.storedVersionedContractByHash # Undefined
asStoredVersionContractByHash(w) == w.storedVersionedContractByHash
isTransfer(w) == w.transfer # Undefined
asTransfer(w) == w.transfer

\* Ok(bytes), or the Error thrown: the one of the last line, or the one of
\* new U32(version) for a versioned item whose version was never set
Wrapper_toBytes(w) ==
    IF isModuleBytes(w) THEN Ok(ModuleBytes_toBytes(w.moduleBytes))
    ELSE IF isStoredContractByHash(w)
         THEN Ok(StoredContractByHash_toBytes(w.storedContractByHash))
    ELSE IF isStoredContractByName(w)
         THEN Ok(StoredContractByName_toBytes(w.storedContractByName))
    ELSE IF isStoredVersionContractByHash(w)
         THEN IF w.storedVersionedContractByHash.version = Undefined
              THEN Thrown("invalid BigNumber value")
              ELSE Ok(StoredVersionedContractByHash_toBytes(w.storedVersionedContractByHash))
    ELSE IF isStoredVersionContractByName(w)
         THEN IF w.storedVersionedContractByName.version = Undefined
              THEN Thrown("invalid BigNumber value")
              ELSE Ok(StoredVersionedContractByName_toBytes(w.storedVersionedContractByName))
    ELSE IF isTransfer(w) THEN Ok(Transfer_toBytes(w.transfer))
    ELSE Thrown("failed to serialize ExecutableDeployItemJsonWrapper")

\* case 1 without its break
fromExecutionDeployItem_fallsThrough(item) ==
    LET res == ExecutableDeployItemJsonWrapper
    IN  CASE item.tag = 0 -> [res EXCEPT !.moduleBytes = item]
          [] item.tag = 1 -> [res EXCEPT !.storedContractByHash = item,
                                         !.storedContractByName = item]
          [] item.tag = 2 -> [res EXCEPT !.storedContractByName = item]
          [] item.tag = 3 -> [res EXCEPT !.storedVersionedContractByHash = item]
          [] item.tag = 4 -> [res EXCEPT !.storedVersionedContractByName = item]
          [] item.tag = 5 -> [res EXCEPT !.transfer = item]
          [] OTHER -> res

fromExecutionDeployItem(item) ==
    LET res == ExecutableDeployItemJsonWrapper
    IN  CASE item.tag = 0 -> [res EXCEPT !.moduleBytes = item]
          [] item.tag = 1 -> [res EXCEPT !.storedContractByHash = item]
          [] item.tag = 2 -> [res EXCEPT !.storedContractByName = item]
          [] item.tag = 3 -> [res EXCEPT !.storedVersionedContractByHash = item]
          [] item.tag = 4 -> [res EXCEPT !.storedVersionedContractByName = item]
          [] item.tag = 5 -> [res EXCEPT !.transfer = item]
          [] OTHER -> res

newModuleBytes(moduleBytes, args) ==
    fromExecutionDeployItem(ModuleBytes(moduleBytes, args))

newStoredContractByHash(hash, version, entryPoint, args) ==
    fromExecutionDeployItem(StoredVersionedContractByHash(hash, version, entryPoint, args))

newStoredContractByName(name, entryPoint, args) ==
    fromExecutionDeployItem(StoredContractByName(name, entryPoint, args))

newStoredVersionContractByHash(hash, version, entryPoint, args) ==
    fromExecutionDeployItem(StoredVersionedContractByHash(hash, version, entryPoint, args))

newStoredVersionContractByName(name, version, entryPoint, args) ==
    fromExecutionDeployItem(StoredVersionedContractByName(name, version, entryPoint, args))

newTransfer(amount, target, sourcePurse, id) ==
    LET item == Transfer(amount, target, sourcePurse, id)
    IN  IF IsThrown(item) THEN item ELSE fromExecutionDeployItem(item)

(***************************************************************************)
(* DeployHeader                                                            *)
(***************************************************************************)
DeployHeader(account, timestamp, ttl, gasPrice, bodyHash, dependencies, chainName) ==
    [account |-> account, timestamp |-> timestamp, ttl |-> ttl, gasPrice |-> gasPrice,
     bodyHash |-> bodyHash, dependencies |-> dependencies, chainName |-> chainName]

\* class DeployHash
DeployHash_toBytes(hash) == toBytesDeployHash(hash)

\* gasPrice written before ttl
DeployHeader_toBytes_gasPriceBeforeTtl(this) ==
    concat(<<
        PublicKey_toBytes(this.account),
        toBytesU64(this.timestamp),
        toBytesU64(this.gasPrice),
        toBytesU64(this.ttl),
        toBytesDeployHash(this.bodyHash),
        toBytesVecT([i \in 1..Len(this.dependencies) |->
            DeployHash_toBytes(this.dependencies[i])]),
        toBytesString(this.chainName)
    >>)

DeployHeader_toBytes(this) ==
    concat(<<
        PublicKey_toBytes(this.account),
        toBytesU64(this.timestamp),
        toBytesU64(this.ttl),
        toBytesU64(this.gasPrice),
        toBytesDeployHash(this.bodyHash),
        toBytesVecT([i \in 1..Len(this.dependencies) |->
            DeployHash_toBytes(this.dependencies[i])]),
        toBytesString(this.chainName)
    >>)

serializeHeader(deployHeader) == DeployHeader_toBytes(deployHeader)

serializeBody_sessionFirst(payment, session) ==
    LET s == Wrapper_toBytes(session)
        p == Wrapper_toBytes(payment)
    IN  IF IsThrown(p) THEN p ELSE IF IsThrown(s) THEN s
        ELSE Ok(concat(<<s.value, p.value>>))

\* Ok(bytes), or the Error payment.toBytes() or session.toBytes() throws
serializeBody(payment, session) ==
    LET p == Wrapper_toBytes(payment)
        s == Wrapper_toBytes(session)
    IN  IF IsThrown(p) THEN p ELSE IF IsThrown(s) THEN s
        ELSE Ok(concat(<<p.value, s.value>>))

(***************************************************************************)
(* DeployParams.  gasPrice and ttl are Undefined when the caller leaves    *)
(* them out, and a number Num(n) otherwise; dependencies left out are the  *)
(* empty array; timestamp is Undefined or Num(t); `now` is Date.now() at   *)
(* the time of the call.                                                   *)
(***************************************************************************)
DefaultGasPrice == 10
DefaultTtl == 3600000

\* a filter that keeps the first copy of a repeated dependency
DeployParams_keepsFirst(accountPublicKey, chainName, gasPrice, ttl, dependencies, timestamp, now) ==
    LET deps == dependencies
        first == {i \in 1..Len(deps) :
                    ~\E k \in 1..(i - 1) : encodeBase16(deps[k]) = encodeBase16(deps[i])}
    IN  [accountPublicKey |-> accountPublicKey,
         timestamp |-> IF Falsy(timestamp) THEN now ELSE timestamp.value,
         ttl |-> IF ttl = Undefined THEN DefaultTtl ELSE ttl.value,
         gasPrice |-> IF gasPrice = Undefined THEN DefaultGasPrice ELSE gasPrice.value,
         dependencies |-> [n \in 1..Cardinality(first) |->
                            deps[CHOOSE i \in first :
                                    Cardinality({k \in first : k <= i}) = n]],
         chainName |-> chainName]

\* a timestamp left out defaults to 0 instead of Date.now()
DeployParams_defaultsToEpoch(accountPublicKey, chainName, gasPrice, ttl, dependencies, timestamp, now) ==
    LET deps == dependencies
        Same(d) == SelectSeq(deps, LAMBDA t : encodeBase16(d) = encodeBase16(t))
        Keep(d) == Len(Same(d)) < 2
    IN  [accountPublicKey |-> accountPublicKey,
         timestamp |-> IF Falsy(timestamp) THEN 0 ELSE timestamp.value,
         ttl |-> IF ttl = Undefined THEN DefaultTtl ELSE ttl.value,
         gasPrice |-> IF gasPrice = Undefined THEN DefaultGasPrice ELSE gasPrice.value,
         dependencies |-> SelectSeq(deps, Keep),
         chainName |-> chainName]

DeployParams(accountPublicKey, chainName, gasPrice, ttl, dependencies, timestamp, now) ==
    LET deps == dependencies
        Same(d) == SelectSeq(deps, LAMBDA t : encodeBase16(d) = encodeBase16(t))
        Keep(d) == Len(Same(d)) < 2
    IN  [accountPublicKey |-> accountPublicKey,
         timestamp |-> IF Falsy(timestamp) THEN now ELSE timestamp.value,
         ttl |-> IF ttl = Undefined THEN DefaultTtl ELSE ttl.value,
         gasPrice |-> IF gasPrice = Undefined THEN DefaultGasPrice ELSE gasPrice.value,
         dependencies |-> SelectSeq(deps, Keep),
         chainName |-> chainName]

(***************************************************************************)
(* Deploy and makeDeploy.  The approvals field of a Deploy value is the    *)
(* array itself; on the heap it is the index of the array in `lists`.      *)
(***************************************************************************)
Deploy(hash, header, payment, session, approvals) ==
    [hash |-> hash, header |-> header, payment |-> payment, session |-> session,
     approvals |-> approvals]

Deploy_isTransfer(this) == isTransfer(this.session)

Deploy_isStandardPayment(this) ==
    IF isModuleBytes(this.payment)
    THEN Len(asModuleBytes(this.payment).moduleBytes) = 0
    ELSE FALSE

\* the Deploy, or the Error thrown while serializing the body
makeDeploy(deployParam, session, payment) ==
    LET serializedBody == serializeBody(payment, session)
        bodyHash == blake2b(serializedBody.value, DigestLen)
        header == DeployHeader(
            deployParam.accountPublicKey,
            deployParam.timestamp,
            deployParam.ttl,
            deployParam.gasPrice,
            bodyHash,
            deployParam.dependencies,
            deployParam.chainName)
        serializedHeader == serializeHeader(header)
        deployHash == blake2b(serializedHeader, DigestLen)
    IN  IF IsThrown(serializedBody) THEN serializedBody
        ELSE Deploy(deployHash, header, payment, session, <<>>)

(***************************************************************************)
(* signDeploy and setSignature: the approvals array after the call, given  *)
(* the Deploy and its approvals array before it.                           *)
(***************************************************************************)
Approval(signer, signature) == [signer |-> signer, signature |-> signature]

\* one rendering for both algorithms
RenderSignature_alwaysEd25519(alg, bytes) == Ed25519_accountHex(bytes)

\* the switch over the algorithm: no case matches a third value
RenderSignature(alg, bytes) ==
    CASE alg = SignatureAlgorithm.Ed25519 -> Ed25519_accountHex(bytes)
      [] alg = SignatureAlgorithm.Secp256K1 -> Secp256K1_accountHex(bytes)
      [] OTHER -> Undefined

signDeploy_dedup(deploy, approvals, signingKey) ==
    LET signature == AsymmetricKey_sign(signingKey, deploy.hash)
        approval == Approval(AsymmetricKey_accountHex(signingKey),
                             RenderSignature(signingKey.signatureAlgorithm, signature))
    IN  IF \E i \in 1..Len(approvals) : approvals[i].signer = approval.signer
        THEN approvals
        ELSE Append(approvals, approval)

signDeploy_signsHeader(deploy, approvals, signingKey) ==
    LET signature == AsymmetricKey_sign(signingKey, serializeHeader(deploy.header))
        approval == Approval(AsymmetricKey_accountHex(signingKey),
                             RenderSignature(signingKey.signatureAlgorithm, signature))
    IN  Append(approvals, approval)

\* the new approval written over the array instead of pushed
signDeploy_overwrites(deploy, approvals, signingKey) ==
    LET signature == AsymmetricKey_sign(signingKey, deploy.hash)
        approval == Approval(AsymmetricKey_accountHex(signingKey),
                             RenderSignature(signingKey.signatureAlgorithm, signature))
    IN  <<approval>>

signDeploy(deploy, approvals, signingKey) ==
    LET signature == AsymmetricKey_sign(signingKey, deploy.hash)
        approval == Approval(AsymmetricKey_accountHex(signingKey),
                             RenderSignature(signingKey.signatureAlgorithm, signature))
    IN  Append(approvals, approval)

\* a signing key pair and a public key belong together, and a signature is
\* the one the key pair of that public key gives for the message
KeyPairs ==
    {AsymmetricKey(PublicKey(<<17, 34>>, 1), <<3>>, SignatureAlgorithm.Ed25519),
     AsymmetricKey(PublicKey(<<51, 68, 85>>, 2), <<5>>, SignatureAlgorithm.Secp256K1)}

PublicKeys == {k.publicKey : k \in KeyPairs}

IsSignatureOf(sig, msg, publicKey) ==
    \E k \in KeyPairs : k.publicKey = publicKey /\ sig = AsymmetricKey_sign(k, msg)

setSignature_verifies(deploy, approvals, sig, publicKey) ==
    LET approval == Approval(PublicKey_toAccountHex(publicKey),
                             RenderSignature(PublicKey_signatureAlgorithm(publicKey), sig))
    IN  IF IsSignatureOf(sig, deploy.hash, publicKey)
        THEN Append(approvals, approval)
        ELSE approvals

setSignature(deploy, approvals, sig, publicKey) ==
    LET approval == Approval(PublicKey_toAccountHex(publicKey),
                             RenderSignature(PublicKey_signatureAlgorithm(publicKey), sig))
    IN  Append(approvals, approval)

\* A call made with undefined in place of the key throws a TypeError where the
\* key is first used: signingKey.sign(...) and publicKey.toAccountHex() stand
\* before deploy.approvals.push(...), the one statement that writes.  What a
\* call leaves: whether it threw, and the approvals array after it.
signDeploy_called_pushesFirst(deploy, approvals, signingKey) ==
    IF signingKey = Undefined
    THEN [threw |-> TRUE, approvals |-> Append(approvals, Approval(Undefined, Undefined))]
    ELSE [threw |-> FALSE, approvals |-> signDeploy(deploy, approvals, signingKey)]

signDeploy_called(deploy, approvals, signingKey) ==
    IF signingKey = Undefined
    THEN [threw |-> TRUE, approvals |-> approvals]
    ELSE [threw |-> FALSE, approvals |-> signDeploy(deploy, approvals, signingKey)]

setSignature_called(deploy, approvals, sig, publicKey) ==
    IF publicKey = Undefined
    THEN [threw |-> TRUE, approvals |-> approvals]
    ELSE [threw |-> FALSE, approvals |-> setSignature(deploy, approvals, sig, publicKey)]

(***************************************************************************)
(* RuntimeArgs.fromBytes: the parser that matches RuntimeArgs.toBytes.     *)
(* The parser walks the bytes by position; an end position of 0 says that  *)
(* the bytes ran out.                                                      *)
(***************************************************************************)
ParseFail == [ok |-> FALSE, value |-> <<>>]

Drop(bytes, n) == SubSeq(bytes, n + 1, Len(bytes))

\* the u32 at `pos`
U32At(bytes, pos) == FromLittleEndian(SubSeq(bytes, pos, pos + 3))

\* the position after the length-prefixed byte array or string at `pos`
ArrayU8End(bytes, pos) ==
    IF pos = 0 \/ pos + 3 > Len(bytes) THEN 0
    ELSE IF pos + 3 + U32At(bytes, pos) > Len(bytes) THEN 0
    ELSE pos + 4 + U32At(bytes, pos)

\* the position after the CLType at `pos`: Option (13) wraps an inner type,
\* ByteArray (15) carries a u32 size, the others are one tag byte
RECURSIVE CLTypeEnd(_, _)
CLTypeEnd(bytes, pos) ==
    IF pos = 0 \/ pos > Len(bytes) THEN 0
    ELSE IF bytes[pos] = 13 THEN CLTypeEnd(bytes, pos + 1)
    ELSE IF bytes[pos] = 15 THEN (IF pos + 4 > Len(bytes) THEN 0 ELSE pos + 5)
    ELSE pos + 1

\* a named argument is its name, its value's bytes and its value's type
NamedArgEnd(bytes, pos) == CLTypeEnd(bytes, ArrayU8End(bytes, ArrayU8End(bytes, pos)))

NamedArgAt(bytes, pos) ==
    [name |-> SubSeq(bytes, pos + 4, ArrayU8End(bytes, pos) - 1),
     value |-> Typed(SubSeq(bytes, ArrayU8End(bytes, pos) + 4,
                            ArrayU8End(bytes, ArrayU8End(bytes, pos)) - 1),
                     CLType(SubSeq(bytes, ArrayU8End(bytes, ArrayU8End(bytes, pos)),
                                   NamedArgEnd(bytes, pos) - 1)))]

RECURSIVE NamedArgsEnd(_, _, _)
NamedArgsEnd(bytes, pos, count) ==
    IF count = 0 \/ pos = 0 THEN pos
    ELSE NamedArgsEnd(bytes, NamedArgEnd(bytes, pos), count - 1)

RECURSIVE NamedArgsAt(_, _, _)
NamedArgsAt(bytes, pos, count) ==
    IF count = 0 THEN <<>>
    ELSE <<NamedArgAt(bytes, pos)>> \o NamedArgsAt(bytes, NamedArgEnd(bytes, pos), count - 1)

\* [ok, value]: hasError() is ~ok
RuntimeArgs_fromBytes(bytes) ==
    IF Len(bytes) < 4 THEN ParseFail
    ELSE IF NamedArgsEnd(bytes, 5, U32At(bytes, 1)) = 0 THEN ParseFail
    ELSE [ok |-> TRUE, value |-> NamedArgsAt(bytes, 5, U32At(bytes, 1))]

byteArrayJsonSerializer(bytes) == encodeBase16(bytes)

byteArrayJsonDeserializer(str) == decodeBase16(str)

argsSerializer(args) == encodeBase16(RuntimeArgs_toBytes(args))

argsDeserializer(byteStr) ==
    LET argsRes == RuntimeArgs_fromBytes(decodeBase16(byteStr))
    IN  IF ~argsRes.ok THEN Thrown("Failed to deserialized RuntimeArgs")
        ELSE Ok(argsRes.value)

\* PublicKey.fromHex: the first two digits give the algorithm
PublicKey_fromHex(hexStr) ==
    PublicKey(decodeBase16(Drop(hexStr, 2)), IF SubSeq(hexStr, 1, 2) = <<48, 49>> THEN 1 ELSE 2)

(***************************************************************************)
(* The typedjson metadata the decorators declare.  A JSON object is a      *)
(* function from member names to JSON values.  A member is written when    *)
(* the property is not undefined; on reading, a member that the JSON       *)
(* object lacks leaves the property as the constructor set it.             *)
(***************************************************************************)
Member(key, name, via) == [key |-> key, name |-> name, via |-> via]

\* @jsonMember of each item class, in declaration order
ClassMembers(ctor) ==
    CASE ctor = "ModuleBytes" ->
            <<Member("moduleBytes", "module_bytes", "byteArray"),
              Member("args", "args", "args")>>
      [] ctor = "StoredContractByHash" ->
            <<Member("hash", "hash", "byteArray"),
              Member("entryPoint", "entry_point", "String"),
              Member("args", "args", "args")>>
      [] ctor = "StoredContractByName" ->
            <<Member("name", "name", "String"),
              Member("entryPoint", "entry_point", "String"),
              Member("args", "args", "args")>>
      [] ctor = "StoredVersionedContractByName" ->
            <<Member("name", "name", "String"),
              Member("version", "version", "Number"),
              Member("entryPoint", "entry_point", "String"),
              Member("args", "args", "args")>>
      [] ctor = "StoredVersionedContractByHash" ->
            <<Member("hash", "hash", "byteArray"),
              Member("version", "version", "Number"),
              Member("entryPoint", "entry_point", "String"),
              Member("args", "args", "args")>>
      [] ctor = "Transfer" ->
            <<Member("args", "args", "args")>>

\* @jsonMember of ExecutableDeployItemJsonWrapper, in declaration order;
\* `via` is the constructor option
WrapperMembers ==
    <<Member("moduleBytes", "ModuleBytes", "ModuleBytes"),
      Member("storedContractByHash", "StoredVersionedContractByHash", "StoredContractByHash"),
      Member("storedContractByName", "StoredContractByName", "StoredContractByName"),
      Member("storedVersionedContractByHash", "StoredVersionedContractByHash",
             "StoredVersionedContractByHash"),
      Member("storedVersionedContractByName", "StoredVersionedContractByName",
             "StoredVersionedContractByName"),
      Member("transfer", "Transfer", "Transfer")>>

\* The library keeps the members of a class either in a table keyed by the
\* JSON name, where a later member of the same name replaces the earlier
\* one, or as the list of all of them.
TypedJsonRegistries == {"byName", "all"}

Registered(members, lib) ==
    IF lib = "all" THEN members
    ELSE LET kept == {i \in 1..Len(members) :
                        ~\E k \in (i + 1)..Len(members) : members[k].name = members[i].name}
         IN  SelectSeq(members, LAMBDA m : \E i \in kept : members[i] = m)

\* new ctor(): the library builds the object with no arguments
Construct(ctor) ==
    CASE ctor = "ModuleBytes" -> ModuleBytes(Undefined, Undefined)
      [] ctor = "StoredContractByHash" -> StoredContractByHash(Undefined, Undefined, Undefined)
      [] ctor = "StoredContractByName" -> StoredContractByName(Undefined, Undefined, Undefined)
      [] ctor = "StoredVersionedContractByName" ->
            StoredVersionedContractByName(Undefined, Undefined, Undefined, Undefined)
      [] ctor = "StoredVersionedContractByHash" ->
            StoredVersionedContractByHash(Undefined, Undefined, Undefined, Undefined)
      [] ctor = "Transfer" -> Transfer(Undefined, Undefined, Undefined, Undefined)

MemberToJson(via, v) ==
    CASE via = "byteArray" -> byteArrayJsonSerializer(v)
      [] via = "args" -> argsSerializer(v)
      [] OTHER -> v

\* Ok(value), or the Error the deserializer throws
MemberFromJson(via, j) ==
    CASE via = "byteArray" -> Ok(byteArrayJsonDeserializer(j))
      [] via = "args" -> argsDeserializer(j)
      [] OTHER -> Ok(j)

\* the members of `members` whose property of `obj` is written: those that
\* are not undefined (bytes, text and argument maps are compared as such)
IsUndefined(v, via) == via \notin {"byteArray", "String", "args"} /\ v = Undefined

Written(obj, members) ==
    {i \in 1..Len(members) : ~IsUndefined(obj[members[i].key], members[i].via)}

Item_toJson(item, ctor) ==
    LET ms == ClassMembers(ctor)
        w == Written(item, ms)
    IN  [n \in {ms[i].name : i \in w} |->
            LET i == CHOOSE i \in w : ms[i].name = n
            IN  MemberToJson(ms[i].via, item[ms[i].key])]

RECURSIVE ReadMembers(_, _, _, _)
ReadMembers(obj, members, j, i) ==
    IF i > Len(members) THEN obj
    ELSE LET m == members[i]
         IN  IF m.name \notin DOMAIN j THEN ReadMembers(obj, members, j, i + 1)
             ELSE LET v == MemberFromJson(m.via, j[m.name])
                  IN  IF IsThrown(v) THEN v
                      ELSE ReadMembers([obj EXCEPT ![m.key] = v.value], members, j, i + 1)

\* the item, or the Error its constructor or a deserializer throws
Item_fromJson(j, ctor) ==
    LET obj == Construct(ctor)
    IN  IF IsThrown(obj) THEN obj ELSE ReadMembers(obj, ClassMembers(ctor), j, 1)

Wrapper_toJson(w, lib) ==
    LET ms == Registered(WrapperMembers, lib)
        wr == Written(w, ms)
    IN  [n \in {ms[i].name : i \in wr} |->
            LET i == CHOOSE i \in wr : ms[i].name = n /\ \A k \in wr : ms[k].name = n => k <= i
            IN  Item_toJson(w[ms[i].key], ms[i].via)]

RECURSIVE ReadSlots(_, _, _, _)
ReadSlots(w, members, j, i) ==
    IF i > Len(members) THEN w
    ELSE LET m == members[i]
         IN  IF m.name \notin DOMAIN j THEN ReadSlots(w, members, j, i + 1)
             ELSE LET item == Item_fromJson(j[m.name], m.via)
                  IN  IF IsThrown(item) THEN item
                      ELSE ReadSlots([w EXCEPT ![m.key] = item], members, j, i + 1)

\* the wrapper, or the Error thrown while reading a slot
Wrapper_fromJson(j, lib) ==
    ReadSlots(ExecutableDeployItemJsonWrapper, Registered(WrapperMembers, lib), j, 1)

DeployHeader_toJson(h) ==
    [account |-> PublicKey_toAccountHex(h.account),
     timestamp |-> h.timestamp,
     ttl |-> h.ttl,
     gas_price |-> h.gasPrice,
     body_hash |-> byteArrayJsonSerializer(h.bodyHash),
     dependencies |-> [i \in 1..Len(h.dependencies) |->
                          byteArrayJsonSerializer(h.dependencies[i])],
     chain_name |-> h.chainName]

DeployHeader_fromJson(j) ==
    DeployHeader(
        PublicKey_fromHex(j.account),
        j.timestamp,
        j.ttl,
        j.gas_price,
        byteArrayJsonDeserializer(j.body_hash),
        [i \in 1..Len(j.dependencies) |-> byteArrayJsonDeserializer(j.dependencies[i])],
        j.chain_name)

\* serializer.stringify(deploy), as the object the text denotes
Deploy_toJson(deploy, lib) ==
    [hash |-> byteArrayJsonSerializer(deploy.hash),
     header |-> DeployHeader_toJson(deploy.header),
     payment |-> Wrapper_toJson(deploy.payment, lib),
     session |-> Wrapper_toJson(deploy.session, lib),
     approvals |-> deploy.approvals]

\* serializer.parse(json): the Deploy, or Undefined when reading it threw
\* (the library reports the error to its handler and returns nothing)
Deploy_fromJson(j, lib) ==
    LET payment == Wrapper_fromJson(j.payment, lib)
        session == Wrapper_fromJson(j.session, lib)
    IN  IF IsThrown(payment) \/ IsThrown(session) THEN Undefined
        ELSE Deploy(byteArrayJsonDeserializer(j.hash), DeployHeader_fromJson(j.header),
                    payment, session, j.approvals)

deployToJson(deploy, lib) == [deploy |-> Deploy_toJson(deploy, lib)]

deployFromJson(j, lib) == Deploy_fromJson(j, lib)

(***************************************************************************)
(* The values the callers pass.                                            *)
(***************************************************************************)
EmptyArgs == RuntimeArgs_fromMap(<<>>)

AmountArgs ==
    RuntimeArgs_fromMap(<<[name |-> Str_amount, value |-> CLValue_u512(2500)]>>)

ContractHash == [i \in 1..DigestLen |-> (11 * i) % 256]

OtherHash == [i \in 1..DigestLen |-> (200 + i) % 256]

ContractName == <<99, 49>>

EntryPoint == <<114, 117, 110>>

VersionInputs == {Null, Num(1)}

Purse == URef([i \in 1..DigestLen |-> i], 7)

AccountKey == PublicKey(<<17, 34>>, 1)

ChainName == <<116, 110>>

\* the items built with the class constructors
ItemInputs ==
    {ModuleBytes(<<>>, AmountArgs), ModuleBytes(<<0, 97, 115, 109>>, EmptyArgs)}
    \cup {StoredContractByHash(ContractHash, EntryPoint, AmountArgs)}
    \cup {StoredContractByName(ContractName, EntryPoint, AmountArgs)}
    \cup {StoredVersionedContractByHash(ContractHash, v, EntryPoint, AmountArgs) :
            v \in VersionInputs}
    \cup {StoredVersionedContractByName(ContractName, v, EntryPoint, AmountArgs) :
            v \in VersionInputs}
    \cup {Transfer(10, Purse, Undefined, Null), Transfer(10, AccountKey, Purse, Num(3))}

\* standardPayment(amount), wrapped
StandardPayment == fromExecutionDeployItem(ModuleBytes(<<>>, AmountArgs))

(***************************************************************************)
(* State.                                                                  *)
(***************************************************************************)
\* the tables of storage.models
Models ==
    {"GenesisAccount", "RawDeployAcceptedEvent", "RawDeployProcessedEvent",
     "RawBlockAddedEvent", "RawFinalitySignatureEvent", "RawStepEvent",
     "RawUnrecognizedEvent", "Deploy", "Transfer", "GenesisAccountTransfer", "Bid",
     "Withdrawal", "Block", "Era", "ValidatorReward", "DelegatorReward", "EraValidator",
     "FinalitySignature"}

\* the account hashes of the GenesisAccount table
GenesisAccounts == {<<97>>}

Init ==
    /\ heap = <<>>
    /\ lists = <<>>
    /\ assembled = <<>>
    /\ calls = <<>>
    /\ ret = [op |-> "none"]
    /\ clock = 1
    /\ given = Undefined
    /\ made = <<>>
    /\ params = Undefined
    /\ wrapper = Undefined
    /\ json = Undefined
    /\ option = Undefined
    /\ storage = Undefined
    /\ db = [model \in Models |-> IF model = "GenesisAccount"
                                 THEN {[key |-> a, value |-> 0] : a \in GenesisAccounts}
                                 ELSE {}]
    /\ promises = <<>>
    /\ events = <<>>

\* the Deploy at heap index d, with its approvals array
DeployAt(d) == [heap[d] EXCEPT !.approvals = lists[heap[d].approvals]]

\* the index of the array a `[]` expression allocates
NewArray_shared(arrays) == 1

NewArray(arrays) == Len(arrays) + 1

\* time passes
MaxClock == 3

Tick ==
    /\ clock < MaxClock
    /\ clock' = clock + 1
    /\ UNCHANGED <<heap, lists, assembled, calls, ret, given, made, params, wrapper, json, option,
                   storage, db, promises, events>>

(***************************************************************************)
(* new DeployParams(...)                                                   *)
(***************************************************************************)
NewDeployParams(accountPublicKey, chainName, gasPrice, ttl, dependencies, timestamp) ==
    /\ params' = DeployParams(accountPublicKey, chainName, gasPrice, ttl, dependencies,
                              timestamp, clock)
    /\ given' = [accountPublicKey |-> accountPublicKey, timestamp |-> timestamp,
                  ttl |-> ttl, gasPrice |-> gasPrice, dependencies |-> dependencies,
                  chainName |-> chainName, at |-> clock]
    /\ ret' = [op |-> "DeployParams"]
    /\ UNCHANGED <<heap, lists, assembled, calls, clock, made, wrapper, json, option,
                   storage, db, promises, events>>

(***************************************************************************)
(* makeDeploy(params, session, payment)                                    *)
(***************************************************************************)
MakeDeploy(session, payment) ==
    /\ params # Undefined
    /\ Len(heap) < MaxDeploys
    /\ LET deploy == makeDeploy(params, session, payment)
           array == NewArray(lists)
       IN  IF IsThrown(deploy)
           THEN /\ ret' = [op |-> "makeDeploy", threw |-> TRUE, deploy |-> 0,
                            payment |-> payment, session |-> session]
                /\ UNCHANGED <<heap, lists, assembled, made>>
           ELSE /\ lists' = IF array > Len(lists) THEN Append(lists, deploy.approvals)
                            ELSE lists
                /\ heap' = Append(heap, [deploy EXCEPT !.approvals = array])
                /\ assembled' = Append(assembled, deploy)
                /\ made' = Append(made, [given |-> given, at |-> clock,
                                         payment |-> payment, session |-> session])
                /\ ret' = [op |-> "makeDeploy", threw |-> FALSE, deploy |-> Len(heap) + 1,
                            payment |-> payment, session |-> session]
    /\ UNCHANGED <<calls, clock, given, params, wrapper, json, option,
                   storage, db, promises, events>>

(***************************************************************************)
(* signDeploy(deploy, signingKey), setSignature(deploy, sig, publicKey)    *)
(***************************************************************************)
SignDeploy_rehashes(d, signingKey) ==
    /\ d \in 1..Len(heap)
    /\ Len(calls) < MaxCalls
    /\ LET out == signDeploy_called(heap[d], lists[heap[d].approvals], signingKey)
       IN  /\ lists' = [lists EXCEPT ![heap[d].approvals] = out.approvals]
           /\ heap' = [heap EXCEPT ![d].hash = blake2b(heap[d].hash, DigestLen)]
           /\ calls' = IF out.threw THEN calls
                       ELSE Append(calls, [op |-> "signDeploy", deploy |-> d,
                                           key |-> signingKey, hash |-> heap[d].hash])
           /\ ret' = [op |-> "signDeploy", threw |-> out.threw, deploy |-> d]
    /\ UNCHANGED <<assembled, clock, given, made, params, wrapper, json, option,
                   storage, db, promises, events>>

SignDeploy(d, signingKey) ==
    /\ d \in 1..Len(heap)
    /\ Len(calls) < MaxCalls
    /\ LET out == signDeploy_called(heap[d], lists[heap[d].approvals], signingKey)
       IN  /\ lists' = [lists EXCEPT ![heap[d].approvals] = out.approvals]
           /\ calls' = IF out.threw THEN calls
                       ELSE Append(calls, [op |-> "signDeploy", deploy |-> d,
                                           key |-> signingKey, hash |-> heap[d].hash])
           /\ ret' = [op |-> "signDeploy", threw |-> out.threw, deploy |-> d]
    /\ UNCHANGED <<heap, assembled, clock, given, made, params, wrapper, json, option,
                   storage, db, promises, events>>

SetSignature(d, sig, publicKey) ==
    /\ d \in 1..Len(heap)
    /\ Len(calls) < MaxCalls
    /\ LET out == setSignature_called(heap[d], lists[heap[d].approvals], sig, publicKey)
       IN  /\ lists' = [lists EXCEPT ![heap[d].approvals] = out.approvals]
           /\ calls' = IF out.threw THEN calls
                       ELSE Append(calls, [op |-> "setSignature", deploy |-> d,
                                           key |-> publicKey, sig |-> sig])
           /\ ret' = [op |-> "setSignature", threw |-> out.threw, deploy |-> d]
    /\ UNCHANGED <<heap, assembled, clock, given, made, params, wrapper, json, option,
                   storage, db, promises, events>>

(***************************************************************************)
(* Assembly and approval: a few kinds of Deploy, one signer of each kind.  *)
(***************************************************************************)
SessionInputs ==
    {fromExecutionDeployItem(StoredContractByName(ContractName, EntryPoint, AmountArgs)),
     fromExecutionDeployItem(Transfer(10, Purse, Undefined, Null))}

PaymentInputs == {StandardPayment, ExecutableDeployItemJsonWrapper}

ForeignSignature == <<222, 173>>

Ed25519Key == CHOOSE k \in KeyPairs : k.signatureAlgorithm = SignatureAlgorithm.Ed25519

Secp256K1Key == CHOOSE k \in KeyPairs : k.signatureAlgorithm = SignatureAlgorithm.Secp256K1

Next ==
    \/ NewDeployParams(AccountKey, ChainName, Undefined, Undefined, <<OtherHash>>, Num(7))
    \/ \E s \in SessionInputs, p \in PaymentInputs : MakeDeploy(s, p)
    \/ \E d \in 1..Len(heap) : SignDeploy(d, Ed25519Key)
    \/ \E d \in 1..Len(heap) : SetSignature(d, ForeignSignature, Secp256K1Key.publicKey)

Spec == Init /\ [][Next]_vars

(***************************************************************************)
(* The approval protocol alone: one kind of Deploy, every signer, and      *)
(* signatures that do and do not belong to the Deploy's hash.              *)
(***************************************************************************)
SignatureInputs(d) ==
    {ForeignSignature} \cup {AsymmetricKey_sign(k, heap[d].hash) : k \in KeyPairs}

NextSign ==
    \/ NewDeployParams(AccountKey, ChainName, Undefined, Undefined, <<>>, Num(7))
    \/ MakeDeploy(StandardPayment, StandardPayment)
    \/ \E d \in 1..Len(heap), k \in KeyPairs : SignDeploy(d, k)
    \/ \E d \in 1..Len(heap), pk \in PublicKeys :
            \E sig \in SignatureInputs(d) : SetSignature(d, sig, pk)

SpecSign == Init /\ [][NextSign]_vars

(***************************************************************************)
(* Calls that fail: a wrapper without a populated slot, and undefined in   *)
(* place of a key.                                                         *)
(***************************************************************************)
NextFail ==
    \/ NewDeployParams(AccountKey, ChainName, Undefined, Undefined, <<>>, Num(7))
    \/ \E s \in SessionInputs, p \in PaymentInputs : MakeDeploy(s, p)
    \/ \E d \in 1..Len(heap), k \in {Ed25519Key, Undefined} : SignDeploy(d, k)
    \/ \E d \in 1..Len(heap), pk \in {Secp256K1Key.publicKey, Undefined} :
            SetSignature(d, ForeignSignature, pk)

SpecFail == Init /\ [][NextFail]_vars

(***************************************************************************)
(* The wrapper: its factories, toBytes(), and the JSON transport form.     *)
(***************************************************************************)
\* a factory call: the caller keeps the wrapper it returns
Returned(op, result) ==
    /\ ret' = [op |-> op, value |-> result]
    /\ wrapper' = IF IsThrown(result) THEN wrapper ELSE result
    /\ UNCHANGED <<heap, lists, assembled, calls, clock, given, made, params, json, option,
                   storage, db, promises, events>>

NewWrapper == Returned("new", ExecutableDeployItemJsonWrapper)

FromExecutionDeployItem(item) ==
    Returned("fromExecutionDeployItem", fromExecutionDeployItem(item))

NewModuleBytes(moduleBytes, args) ==
    Returned("newModuleBytes", newModuleBytes(moduleBytes, args))

NewStoredContractByHash(hash, version, entryPoint, args) ==
    Returned("newStoredContractByHash", newStoredContractByHash(hash, version, entryPoint, args))

NewStoredContractByName(name, entryPoint, args) ==
    Returned("newStoredContractByName", newStoredContractByName(name, entryPoint, args))

NewStoredVersionContractByHash(hash, version, entryPoint, args) ==
    Returned("newStoredVersionContractByHash",
             newStoredVersionContractByHash(hash, version, entryPoint, args))

NewStoredVersionContractByName(name, version, entryPoint, args) ==
    Returned("newStoredVersionContractByName",
             newStoredVersionContractByName(name, version, entryPoint, args))

\* the arguments of the call are kept with what it returned
NewTransfer(amount, target, sourcePurse, id) ==
    LET result == newTransfer(amount, target, sourcePurse, id)
    IN  /\ ret' = [op |-> "newTransfer", value |-> result, amount |-> amount,
                   target |-> target, sourcePurse |-> sourcePurse, id |-> id]
        /\ wrapper' = IF IsThrown(result) THEN wrapper ELSE result
        /\ UNCHANGED <<heap, lists, assembled, calls, clock, given, made, params, json, option,
                   storage, db, promises, events>>

\* wrapper.toBytes()
ToBytes ==
    /\ wrapper # Undefined
    /\ ret' = [op |-> "toBytes", of |-> wrapper, value |-> Wrapper_toBytes(wrapper)]
    /\ UNCHANGED <<heap, lists, assembled, calls, clock, given, made, params, wrapper, json, option,
                   storage, db, promises, events>>

\* deployToJson(deploy).deploy; `from` and `lib` record the Deploy it was
\* written from and the library build that wrote it
DeployToJson(d, lib) ==
    /\ d \in 1..Len(heap)
    /\ json' = [deploy |-> deployToJson(DeployAt(d), lib).deploy, from |-> d, lib |-> lib]
    /\ ret' = [op |-> "deployToJson", deploy |-> d]
    /\ UNCHANGED <<heap, lists, assembled, calls, clock, given, made, params, wrapper, option,
                   storage, db, promises, events>>

\* a JSON text that arrives from elsewhere
ReceiveJson(j, lib) ==
    /\ json' = [deploy |-> j, from |-> 0, lib |-> lib]
    /\ ret' = [op |-> "receive"]
    /\ UNCHANGED <<heap, lists, assembled, calls, clock, given, made, params, wrapper, option,
                   storage, db, promises, events>>

\* deployFromJson(json)
DeployFromJson ==
    /\ json # Undefined
    /\ ret' = [op |-> "deployFromJson", from |-> json.from, lib |-> json.lib,
               value |-> deployFromJson(json.deploy, json.lib)]
    /\ UNCHANGED <<heap, lists, assembled, calls, clock, given, made, params, wrapper, json, option,
                   storage, db, promises, events>>

\* deploy.session of the Deploy that deployFromJson returned
ReadSession ==
    /\ ret.op = "deployFromJson"
    /\ ret.value # Undefined
    /\ wrapper' = ret.value.session
    /\ UNCHANGED <<heap, lists, assembled, calls, ret, clock, given, made, params, json, option,
                   storage, db, promises, events>>

MaxJsonDeploys == 1

\* a Deploy text whose session object carries two variant names
TwoKeyJson ==
    LET deploy == makeDeploy(
            DeployParams(AccountKey, ChainName, Undefined, Undefined, <<>>, Num(7), 1),
            StandardPayment, StandardPayment)
        session == [n \in {"ModuleBytes", "StoredContractByName"} |->
            IF n = "ModuleBytes"
            THEN Item_toJson(ModuleBytes(<<>>, AmountArgs), "ModuleBytes")
            ELSE Item_toJson(StoredContractByName(ContractName, EntryPoint, AmountArgs),
                             "StoredContractByName")]
    IN  [Deploy_toJson(deploy, "all") EXCEPT !.session = session]

\* new Transfer(...) with and without a source purse and an id
TransferInputs ==
    {<<target, sourcePurse, id>> :
        target \in {Purse, AccountKey, Undefined},
        sourcePurse \in {Undefined, Purse},
        id \in {Null, Num(0), Num(3)}}

ArgsInputs == {EmptyArgs, AmountArgs}

NextWrapper ==
    \/ NewWrapper
    \/ \E item \in ItemInputs : FromExecutionDeployItem(item)
    \/ \E args \in ArgsInputs : NewModuleBytes(<<>>, args)
    \/ \E hash \in {ContractHash, OtherHash}, v \in VersionInputs, args \in ArgsInputs :
            NewStoredContractByHash(hash, v, EntryPoint, args)
    \/ \E args \in ArgsInputs : NewStoredContractByName(ContractName, EntryPoint, args)
    \/ \E hash \in {ContractHash, OtherHash}, v \in VersionInputs, args \in ArgsInputs :
            NewStoredVersionContractByHash(hash, v, EntryPoint, args)
    \/ \E v \in VersionInputs, args \in ArgsInputs :
            NewStoredVersionContractByName(ContractName, v, EntryPoint, args)
    \/ \E amount \in {0, 10}, t \in TransferInputs : NewTransfer(amount, t[1], t[2], t[3])
    \/ ToBytes

SpecWrapper == Init /\ [][NextWrapper]_vars

NextJson ==
    \/ NewDeployParams(AccountKey, ChainName, Undefined, Undefined, <<>>, Num(7))
    \/ \E item \in ItemInputs : FromExecutionDeployItem(item)
    \/ ToBytes
    \/ (wrapper # Undefined /\ Len(heap) < MaxJsonDeploys /\ MakeDeploy(wrapper, StandardPayment))
    \/ \E d \in 1..Len(heap), lib \in TypedJsonRegistries : DeployToJson(d, lib)
    \/ \E lib \in TypedJsonRegistries : ReceiveJson(TwoKeyJson, lib)
    \/ DeployFromJson
    \/ ReadSession

SpecJson == Init /\ [][NextJson]_vars

(***************************************************************************)
(* The header: dependency lists with and without repeated hashes, and the  *)
(* bytes of the header of a Deploy built from them.                        *)
(***************************************************************************)
\* serializeHeader(deploy.header)
SerializeHeader(d) ==
    /\ d \in 1..Len(heap)
    /\ ret' = [op |-> "serializeHeader", deploy |-> d, value |-> serializeHeader(heap[d].header)]
    /\ UNCHANGED <<heap, lists, assembled, calls, clock, given, made, params, wrapper, json, option,
                   storage, db, promises, events>>

DependencyInputs ==
    {<<>>, <<OtherHash>>, <<OtherHash, ContractHash>>, <<OtherHash, OtherHash>>,
     <<OtherHash, ContractHash, OtherHash>>, <<ContractHash, OtherHash, OtherHash>>,
     <<OtherHash, OtherHash, OtherHash>>}

MaxHeaderDeploys == 1

NextHeader ==
    \/ \E deps \in DependencyInputs :
            NewDeployParams(AccountKey, ChainName, Undefined, Undefined, deps, Num(7))
    \/ (Len(heap) < MaxHeaderDeploys /\ MakeDeploy(StandardPayment, StandardPayment))
    \/ \E d \in 1..Len(heap) : SerializeHeader(d)

SpecHeader == Init /\ [][NextHeader]_vars

(***************************************************************************)
(* Time: DeployParams built with and without a timestamp, Deploys made     *)
(* from them sooner or later.                                              *)
(***************************************************************************)
TimestampInputs == {Undefined, Num(0), Num(7)}

MaxTimeDeploys == 2

NextTime ==
    \/ Tick
    \/ \E t \in TimestampInputs :
            NewDeployParams(AccountKey, ChainName, Num(2), Undefined, <<>>, t)
    \/ (Len(heap) < MaxTimeDeploys /\ MakeDeploy(StandardPayment, StandardPayment))

SpecTime == Init /\ [][NextTime]_vars

(***************************************************************************)
(* option.ts: new Option(t, innerType) and the methods of the object.      *)
(***************************************************************************)
NewOption(t, innerType) ==
    LET result == Option(t, innerType)
    IN  /\ ret' = [op |-> "Option", value |-> result]
        /\ option' = IF IsThrown(result) THEN option
                     ELSE [t |-> t, innerType |-> innerType, value |-> result]
        /\ UNCHANGED <<heap, lists, assembled, calls, clock, given, made, params, wrapper,
                       json, storage, db, promises, events>>

\* option.isNone(), option.isSome(), option.toBytes(), option.clType()
OptionCall(op, result) ==
    /\ option # Undefined
    /\ ret' = [op |-> op, of |-> option, value |-> result]
    /\ UNCHANGED <<heap, lists, assembled, calls, clock, given, made, params, wrapper,
                   json, option,
                   storage, db, promises, events>>

IsNone == OptionCall("isNone", Option_isNone(option.value))

IsSome == OptionCall("isSome", Option_isSome(option.value))

OptionToBytes == OptionCall("Option.toBytes", Option_toBytes(option.value))

OptionClType == OptionCall("clType", Option_clType(option.value))

\* the typed values and the types given to the constructor
TypedInputs ==
    {Null, U32(0), U32(1), U32(258), CLTypedAndToBytesHelper_u64(0),
     CLTypedAndToBytesHelper_u64(3), CLValue_u512(0), CLValue_u512(2500),
     CLValue_uref(Purse), CLValue_byteArray(<<>>), CLValue_byteArray(<<0>>),
     CLValue_option(Null, CLTypeHelper_u64)}

TypeInputs ==
    {Undefined, CLTypeHelper_u32, CLTypeHelper_u64, CLTypeHelper_u512, CLTypeHelper_uref}

NextOption ==
    \/ \E t \in TypedInputs, innerType \in TypeInputs : NewOption(t, innerType)
    \/ IsNone
    \/ IsSome
    \/ OptionToBytes
    \/ OptionClType

SpecOption == Init /\ [][NextOption]_vars

(***************************************************************************)
(* Storage: the event handlers and the rows they store.  A call of         *)
(* storeEntity runs up to models[model].create(entity) and hands back a    *)
(* promise; the database settles the promises later, in any order.  A row  *)
(* is written with the column its table is keyed by (key) and one further  *)
(* column (value).                                                         *)
(***************************************************************************)
\* the boolean false of JavaScript
False == [js |-> "false"]

\* the promise an async call hands back before it settles
Promise == [js |-> "Promise"]

\* a JavaScript array where a slot holds an array or nothing
Array(items) == [js |-> "array", value |-> items]

\* s.substring(n)
substring(s, n) == SubSeq(s, n + 1, Len(s))

\* "account-hash-"
AccountHashPrefix == <<97, 99, 99, 111, 117, 110, 116, 45, 104, 97, 115, 104, 45>>

\* event[k] of a parsed JSON object, written as its members in order
Get(event, k) ==
    IF \E i \in 1..Len(event) : event[i].name = k
    THEN event[CHOOSE i \in 1..Len(event) : event[i].name = k].value
    ELSE Undefined

\* Object.keys(event)
Object_keys(event) == [i \in 1..Len(event) |-> event[i].name]

\* models[model].create(entity) on the rows of the database: a second row
\* with the key of a stored one is refused, and any create can fail otherwise
Model_create(rows, entity, fault) ==
    IF fault THEN Thrown("ConnectionError")
    ELSE IF \E r \in rows : r.key = entity.key
         THEN Thrown("UniqueConstraintError")
         ELSE Ok([key |-> entity.key, value |-> entity.value])

\* storeEntity that answers false to every error
storeEntity_swallowsAll(created) ==
    IF IsThrown(created) THEN Ok(False) ELSE created

\* storeEntity(model, entity), from what create settled to: the row, false
\* for a unique-constraint error, the error thrown again for any other
storeEntity(created) ==
    IF ~IsThrown(created) THEN created
    ELSE IF created.message = "UniqueConstraintError" THEN Ok(False)
    ELSE created

\* one entity handed to storeEntity
Entity(model, key, value) == [key |-> key, value |-> value, model |-> model]

\* the rows one transform of a successful deploy gives rise to
StoresOfTransform(st, event, result, transform) ==
    LET transferEvent == transform.transform.WriteTransfer
        fromAccount == substring(transferEvent.from, 13)
        transfers ==
            IF \E i \in 1..Len(result.transfers) : result.transfers[i] = transform.key
            THEN <<Entity("Transfer", transform.key, event.deploy_hash)>>
                 \o (IF st.withGenesisAccountsTracking
                        /\ fromAccount \in st.genesisAccountHashesMap
                     THEN <<Entity("GenesisAccountTransfer", transform.key, event.deploy_hash)>>
                     ELSE <<>>)
            ELSE <<>>
        written ==
            IF Falsy(transform.transform) THEN <<>>
            ELSE IF ~Falsy(transform.transform.WriteBid)
                 THEN <<Entity("Bid", transform.key, event.deploy_hash)>>
            ELSE IF ~Falsy(transform.transform.WriteWithdraw)
                 THEN [i \in 1..Len(transform.transform.WriteWithdraw.value) |->
                          Entity("Withdrawal", <<transform.key, i>>, event.deploy_hash)]
            ELSE <<>>
    IN  transfers \o written

\* onDeployProcessedEvent(event): the entities it hands to storeEntity, in
\* order, and whether it ends in an error.  The promise of the Deploy row is
\* compared with false as it is, not awaited.
onDeployProcessedEvent(st, event) ==
    LET result == Promise
        success == event.execution_result.Success
        rows == IF result # False /\ ~Falsy(success)
                THEN Flatten([i \in 1..Len(success.effect.transforms) |->
                                 StoresOfTransform(st, event, success,
                                                   success.effect.transforms[i])])
                ELSE <<>>
    IN  [threw |-> st.pubsub # Null,
         stores |-> <<Entity("Deploy", event.deploy_hash, ~Falsy(success))>> \o rows,
         awaits |-> <<>>]

\* onBlockAddedEvent(event, apiVersion) up to its first await: the Block row,
\* and for a block that ends an era the Era row and the request for the era
\* summary
onBlockAddedEvent(st, event) ==
    IF ~Falsy(event.block.header.era_end)
    THEN [threw |-> FALSE,
          stores |-> <<Entity("Block", event.block.hash, event.block.header.height),
                       Entity("Era", event.block.header.era_id, event.block.header.height)>>,
          awaits |-> <<Entity("getEraInfoBySwitchBlockHeight", event.block.header.height,
                              event.block.header)>>]
    ELSE [threw |-> st.pubsub # Null,
          stores |-> <<Entity("Block", event.block.hash, event.block.header.height)>>,
          awaits |-> <<>>]

\* onBlockAddedEvent after the era summary has arrived: the rewards of the
\* summary and the validators of the next era.  The EraValidator.update calls
\* change columns that the rows of this model do not carry.
onBlockAddedEvent_resumed(st, header, eraSummary) ==
    LET rewards ==
            Flatten([i \in 1..Len(eraSummary.seigniorage_allocations) |->
                LET reward == eraSummary.seigniorage_allocations[i]
                IN  IF ~Falsy(reward.Validator)
                    THEN <<Entity("ValidatorReward", <<eraSummary.era_id, i>>,
                                 reward.Validator.validator_public_key)>>
                    ELSE IF ~Falsy(reward.Delegator)
                    THEN <<Entity("DelegatorReward", <<eraSummary.era_id, i>>,
                                 reward.Delegator.delegator_public_key)>>
                    ELSE <<>>])
        validators ==
            [i \in 1..Len(header.era_end.next_era_validator_weights) |->
                Entity("EraValidator",
                       <<header.era_id + 1, header.era_end.next_era_validator_weights[i]>>, 0)]
    IN  [threw |-> st.pubsub # Null, stores |-> rewards \o validators, awaits |-> <<>>]

\* onFinalitySignatureEvent(event)
onFinalitySignatureEvent(st, event) ==
    [threw |-> FALSE,
     stores |-> <<Entity("FinalitySignature", event.signature, event.block_hash)>>,
     awaits |-> <<>>]

\* no typed handler is called
NoHandler == [threw |-> FALSE, stores |-> <<>>, awaits |-> <<>>]

\* the branch of onEvent for the key name: the raw row, the typed handler
\* called and what that handler did before onEvent returned
Branch(st, event, n, name) ==
    CASE name = "DeployAccepted" ->
            [raw |-> Entity("RawDeployAcceptedEvent", n, Get(event, name).hash),
             handler |-> "none", called |-> NoHandler]
      [] name = "DeployProcessed" ->
            [raw |-> Entity("RawDeployProcessedEvent", n, Get(event, name).deploy_hash),
             handler |-> "onDeployProcessedEvent",
             called |-> onDeployProcessedEvent(st, Get(event, name))]
      [] name = "BlockAdded" ->
            [raw |-> Entity("RawBlockAddedEvent", n, Get(event, name).block.header.height),
             handler |-> "onBlockAddedEvent",
             called |-> onBlockAddedEvent(st, Get(event, name))]
      [] name = "FinalitySignature" ->
            [raw |-> Entity("RawFinalitySignatureEvent", n, Get(event, name).signature),
             handler |-> "onFinalitySignatureEvent",
             called |-> onFinalitySignatureEvent(st, Get(event, name))]
      [] name = "Step" ->
            [raw |-> Entity("RawStepEvent", n, Get(event, name).era_id),
             handler |-> "none", called |-> NoHandler]
      [] OTHER ->
            LET keys == Object_keys(event)
                eventType == IF Len(keys) > 0 THEN keys[1] ELSE ""
            IN  [raw |-> Entity("RawUnrecognizedEvent", n, eventType),
                 handler |-> "none", called |-> NoHandler]

\* onEvent that tests Step before FinalitySignature
onEvent_stepFirst(st, event, n) ==
    IF ~Falsy(Get(event, "DeployAccepted")) THEN Branch(st, event, n, "DeployAccepted")
    ELSE IF ~Falsy(Get(event, "DeployProcessed")) THEN Branch(st, event, n, "DeployProcessed")
    ELSE IF ~Falsy(Get(event, "BlockAdded")) THEN Branch(st, event, n, "BlockAdded")
    ELSE IF ~Falsy(Get(event, "Step")) THEN Branch(st, event, n, "Step")
    ELSE IF ~Falsy(Get(event, "FinalitySignature")) THEN Branch(st, event, n, "FinalitySignature")
    ELSE Branch(st, event, n, "")

\* onEvent(sourceNodeId, apiVersion, jsonBody) for the n-th event, event being
\* what JSON.parse gives: the else-if chain over the keys of the event
onEvent(st, event, n) ==
    IF ~Falsy(Get(event, "DeployAccepted")) THEN Branch(st, event, n, "DeployAccepted")
    ELSE IF ~Falsy(Get(event, "DeployProcessed")) THEN Branch(st, event, n, "DeployProcessed")
    ELSE IF ~Falsy(Get(event, "BlockAdded")) THEN Branch(st, event, n, "BlockAdded")
    ELSE IF ~Falsy(Get(event, "FinalitySignature")) THEN Branch(st, event, n, "FinalitySignature")
    ELSE IF ~Falsy(Get(event, "Step")) THEN Branch(st, event, n, "Step")
    ELSE Branch(st, event, n, "")

\* getGenesisAccountHashesMap(): the account hashes of the GenesisAccount rows
getGenesisAccountHashesMap(tables) == {r.key : r \in tables["GenesisAccount"]}

\* the promises of a handler's storeEntity calls and of its await
Promises(out, n) ==
    [i \in 1..Len(out.stores) |->
        [key |-> out.stores[i].key, value |-> out.stores[i].value,
         model |-> out.stores[i].model, state |-> Undefined, event |-> n]]
    \o [i \in 1..Len(out.awaits) |->
        [key |-> out.awaits[i].key, value |-> out.awaits[i].value,
         model |-> out.awaits[i].model, state |-> Undefined, event |-> n]]

\* new Storage(models, casperClient, pubsub)
NewStorage(pubsub) ==
    /\ storage = Undefined
    /\ storage' = [pubsub |-> pubsub, withGenesisAccountsTracking |-> FALSE,
                   genesisAccountHashesMap |-> {}]
    /\ ret' = [op |-> "Storage"]
    /\ UNCHANGED <<heap, lists, assembled, calls, clock, given, made, params, wrapper, json,
                   option, db, promises, events>>

\* storage.enableGenesisAccountsTracking()
EnableGenesisAccountsTracking ==
    /\ storage # Undefined
    /\ ~storage.withGenesisAccountsTracking
    /\ storage' = [storage EXCEPT !.withGenesisAccountsTracking = TRUE,
                                  !.genesisAccountHashesMap = getGenesisAccountHashesMap(db)]
    /\ ret' = [op |-> "enableGenesisAccountsTracking"]
    /\ UNCHANGED <<heap, lists, assembled, calls, clock, given, made, params, wrapper, json,
                   option, db, promises, events>>

\* storage.onEvent(sourceNodeId, apiVersion, jsonBody): the raw row and the
\* rows of the typed handler are handed to storeEntity, none is awaited
OnEvent(event) ==
    /\ storage # Undefined
    /\ LET n == Len(events) + 1
           out == onEvent(storage, event, n)
       IN  /\ promises' = promises
                          \o Promises([stores |-> <<out.raw>>, awaits |-> <<>>], n)
                          \o Promises(out.called, n)
           /\ ret' = [op |-> "onEvent", threw |-> out.called.threw, value |-> out.raw,
                      at |-> Len(promises), handler |-> out.handler]
    /\ events' = Append(events, event)
    /\ UNCHANGED <<heap, lists, assembled, calls, clock, given, made, params, wrapper, json,
                   option, storage, db>>

\* the create calls the database has not answered yet
Pending == {i \in 1..Len(promises) : promises[i].state = Undefined /\ promises[i].model \in Models}

\* the create calls that failed for another reason than a stored key
Faults == {i \in 1..Len(promises) : IsThrown(promises[i].state)}

\* the database answers the create call of promise i, one of the PoolMax
\* oldest it holds, and storeEntity goes on from its await
Settle(i, fault) ==
    /\ i \in Pending
    /\ Cardinality({k \in Pending : k < i}) < PoolMax
    /\ fault => Cardinality(Faults) < MaxFaults
    /\ LET created == Model_create(db[promises[i].model], promises[i], fault)
           settled == storeEntity(created)
       IN  /\ db' = IF IsThrown(created) THEN db
                    ELSE [db EXCEPT ![promises[i].model] = @ \cup {created.value}]
           /\ promises' = [promises EXCEPT ![i].state = settled]
           /\ ret' = [op |-> "storeEntity", given |-> created, value |-> settled, at |-> i]
    /\ UNCHANGED <<heap, lists, assembled, calls, clock, given, made, params, wrapper, json,
                   option, storage, events>>

\* casperClient.getEraInfoBySwitchBlockHeight answers, and onBlockAddedEvent
\* goes on from its await
EraInfoArrives(i, eraSummary) ==
    /\ i \in 1..Len(promises)
    /\ promises[i].state = Undefined
    /\ promises[i].model = "getEraInfoBySwitchBlockHeight"
    /\ LET out == onBlockAddedEvent_resumed(storage, promises[i].value, eraSummary)
       IN  /\ promises' = [promises EXCEPT ![i].state = Ok(eraSummary)]
                          \o Promises(out, promises[i].event)
           /\ ret' = [op |-> "onBlockAddedEvent", threw |-> out.threw, at |-> i]
    /\ UNCHANGED <<heap, lists, assembled, calls, clock, given, made, params, wrapper, json,
                   option, storage, db, events>>

\* the events of the node's stream, as JSON.parse gives them
JsonMember(name, value) == [name |-> name, value |-> value]

\* a transfer from `from`, a bid and a withdrawal, as a successful deploy
\* reports them
Transforms(from) ==
    <<[key |-> "transfer-1",
       transform |-> [WriteTransfer |-> [from |-> AccountHashPrefix \o from,
                                          to |-> AccountHashPrefix \o <<98>>],
                      WriteBid |-> Undefined, WriteWithdraw |-> Undefined]],
      [key |-> "bid-1",
       transform |-> [WriteTransfer |-> Undefined, WriteBid |-> [amount |-> 5],
                      WriteWithdraw |-> Undefined]],
      [key |-> "withdraw-1",
       transform |-> [WriteTransfer |-> Undefined, WriteBid |-> Undefined,
                      WriteWithdraw |-> Array(<<[amount |-> 1]>>)]]>>

DeployProcessedSuccess(hash, from) ==
    [deploy_hash |-> hash,
     execution_result |->
        [Success |-> [transfers |-> <<"transfer-1">>,
                      effect |-> [transforms |-> Transforms(from)]],
         Failure |-> Undefined]]

DeployProcessedFailure(hash) ==
    [deploy_hash |-> hash,
     execution_result |-> [Success |-> Undefined, Failure |-> [error_message |-> "e"]]]

Block(height, era_end) ==
    [block |-> [hash |-> "b", header |-> [height |-> height, era_end |-> era_end,
                                          era_id |-> 1]]]

StepEvent == [era_id |-> 1]

\* the events that report a deploy
DeployEventInputs ==
    <<<<JsonMember("DeployAccepted", [hash |-> "d1"])>>,
      <<JsonMember("DeployProcessed", DeployProcessedSuccess("d1", <<97>>))>>,
      <<JsonMember("DeployProcessed", DeployProcessedFailure("d2"))>>>>

EventInputs ==
    DeployEventInputs \o
    <<<<JsonMember("BlockAdded", Block(1, Undefined))>>,
      <<JsonMember("BlockAdded", Block(2, [next_era_validator_weights |-> <<"v1">>]))>>,
      <<JsonMember("FinalitySignature", [signature |-> "s1", block_hash |-> "b"])>>,
      <<JsonMember("Step", StepEvent)>>,
      <<JsonMember("Step", StepEvent),
        JsonMember("FinalitySignature", [signature |-> "s1", block_hash |-> "b"])>>,
      <<JsonMember("DeployAccepted", Null), JsonMember("Step", StepEvent)>>,
      <<JsonMember("ApiVersion", Num(1))>>,
      <<>>>>

EraSummaryInputs ==
    {[era_id |-> 1,
      seigniorage_allocations |-> <<[Validator |-> [validator_public_key |-> "v1"], Delegator |-> Undefined],
          [Validator |-> Undefined, Delegator |-> [delegator_public_key |-> "dl1"]]>>]}

\* deploys of the stream, delivered up to MaxEvents times in all
NextStorage ==
    \/ \E pubsub \in {Null, [name |-> "pubsub"]} : NewStorage(pubsub)
    \/ EnableGenesisAccountsTracking
    \/ (Len(events) < MaxEvents /\ \E e \in 1..Len(DeployEventInputs) : OnEvent(DeployEventInputs[e]))
    \/ \E i \in 1..Len(promises), fault \in BOOLEAN : Settle(i, fault)

SpecStorage == Init /\ [][NextStorage]_vars

\* a deploy accepted and a deploy that failed, delivered up to MaxStoreEvents
\* times in all: the rows of one storeEntity call each
NextStore ==
    \/ \E pubsub \in {Null, [name |-> "pubsub"]} : NewStorage(pubsub)
    \/ EnableGenesisAccountsTracking
    \/ (Len(events) < MaxStoreEvents
        /\ \E e \in {1, 3} : OnEvent(DeployEventInputs[e]))
    \/ \E i \in 1..Len(promises), fault \in BOOLEAN : Settle(i, fault)

SpecStore == Init /\ [][NextStore]_vars

\* any event of the stream, up to MaxStreamEvents of them, over a database
\* that fails no create
NextStream ==
    \/ \E pubsub \in {Null, [name |-> "pubsub"]} : NewStorage(pubsub)
    \/ EnableGenesisAccountsTracking
    \/ (Len(events) < MaxStreamEvents /\ \E e \in 1..Len(EventInputs) : OnEvent(EventInputs[e]))
    \/ \E i \in 1..Len(promises) : Settle(i, FALSE)
    \/ \E i \in 1..Len(promises), eraSummary \in EraSummaryInputs : EraInfoArrives(i, eraSummary)

SpecStream == Init /\ [][NextStream]_vars

(***************************************************************************)
(* Properties.                                                             *)
(***************************************************************************)
Encodes(w) == ~IsThrown(Wrapper_toBytes(w))

Approvals(d) == lists[heap[d].approvals]

\* the calls made on the Deploy at heap index d, in call order
CallsOn(d) == SelectSeq(calls, LAMBDA c : c.deploy = d)

\* C1: when both wrappers encode, makeDeploy returns a Deploy whose
\* header.bodyHash is the digest of the payment bytes followed by the session
\* bytes and whose hash is the digest of the bytes of the header it returns.
C1_MakeDeployHashes ==
    (ret.op = "makeDeploy" /\ Encodes(ret.session) /\ Encodes(ret.payment)) =>
        /\ ~ret.threw
        /\ LET deploy == heap[ret.deploy]
           IN  /\ deploy.payment = ret.payment
               /\ deploy.session = ret.session
               /\ deploy.header.bodyHash =
                    blake2b(Wrapper_toBytes(ret.payment).value
                                \o Wrapper_toBytes(ret.session).value, DigestLen)
               /\ deploy.hash = blake2b(DeployHeader_toBytes(deploy.header), DigestLen)

\* makeDeploy has returned a Deploy whose payment and session bytes differ
C1_Witness ==
    /\ ret.op = "makeDeploy"
    /\ ~ret.threw
    /\ Wrapper_toBytes(ret.payment) # Wrapper_toBytes(ret.session)

\* C2: the approvals of a Deploy are one entry per signDeploy or setSignature
\* call made on it, the i-th entry carrying the signer of the i-th call; a
\* repeated key gives a further entry.
SignerOf(c) ==
    IF c.op = "signDeploy" THEN AsymmetricKey_accountHex(c.key)
    ELSE PublicKey_toAccountHex(c.key)

C2_OneApprovalPerCall ==
    \A d \in 1..Len(heap) :
        /\ Len(Approvals(d)) = Len(CallsOn(d))
        /\ \A i \in 1..Len(CallsOn(d)) : Approvals(d)[i].signer = SignerOf(CallsOn(d)[i])

\* two calls with the same key have been made on one Deploy
C2_Witness ==
    \E d \in 1..Len(heap) :
        /\ Len(CallsOn(d)) = 2
        /\ SignerOf(CallsOn(d)[1]) = SignerOf(CallsOn(d)[2])
        /\ Len(Approvals(d)) = 2

\* C3: whatever has been signed, every Deploy keeps the hash, header, payment
\* and session makeDeploy gave it, and the two digests still fit.
C3_AssemblyUnchanged ==
    \A d \in 1..Len(heap) :
        /\ heap[d].hash = assembled[d].hash
        /\ heap[d].header = assembled[d].header
        /\ heap[d].payment = assembled[d].payment
        /\ heap[d].session = assembled[d].session
        /\ heap[d].hash = blake2b(DeployHeader_toBytes(heap[d].header), DigestLen)
        /\ heap[d].header.bodyHash =
                blake2b(Wrapper_toBytes(heap[d].payment).value
                            \o Wrapper_toBytes(heap[d].session).value, DigestLen)

\* a Deploy has been approved by signDeploy and by setSignature
C3_Witness ==
    \E d \in 1..Len(heap) :
        /\ \E i \in 1..Len(CallsOn(d)) : CallsOn(d)[i].op = "signDeploy"
        /\ \E i \in 1..Len(CallsOn(d)) : CallsOn(d)[i].op = "setSignature"
        /\ Len(Approvals(d)) >= 2

\* C4: the entry of a signDeploy call is the account identifier of the key and
\* the rendering of the key's signature of deploy.hash, and the call returns
\* the Deploy it was given.
C4_SignDeploySignsHash ==
    /\ \A d \in 1..Len(heap) : \A i \in 1..Len(CallsOn(d)) :
            LET c == CallsOn(d)[i]
            IN  c.op = "signDeploy" =>
                    /\ i <= Len(Approvals(d))
                    /\ Approvals(d)[i] =
                        Approval(AsymmetricKey_accountHex(c.key),
                                 IF c.key.signatureAlgorithm = SignatureAlgorithm.Ed25519
                                 THEN Ed25519_accountHex(AsymmetricKey_sign(c.key, heap[d].hash))
                                 ELSE Secp256K1_accountHex(AsymmetricKey_sign(c.key, heap[d].hash)))
    /\ ret.op = "signDeploy" => ret.deploy = calls[Len(calls)].deploy

\* signDeploy has returned, and the header bytes are not the hash
C4_Witness ==
    /\ ret.op = "signDeploy"
    /\ Len(Approvals(ret.deploy)) > 0
    /\ serializeHeader(heap[ret.deploy].header) # heap[ret.deploy].hash

\* C5: the entry of a setSignature call is the account identifier of the
\* public key and the rendering of the signature bytes as given, whether or
\* not they are a signature of deploy.hash under that key.
C5_SetSignatureUnverified ==
    \A d \in 1..Len(heap) : \A i \in 1..Len(CallsOn(d)) :
        LET c == CallsOn(d)[i]
        IN  c.op = "setSignature" =>
                /\ i <= Len(Approvals(d))
                /\ Approvals(d)[i] =
                    Approval(PublicKey_toAccountHex(c.key),
                             IF c.key.tag = 1 THEN Ed25519_accountHex(c.sig)
                             ELSE Secp256K1_accountHex(c.sig))

\* setSignature has appended a signature that is not one of deploy.hash under
\* the public key
C5_Witness ==
    \E d \in 1..Len(heap) : \E i \in 1..Len(CallsOn(d)) :
        LET c == CallsOn(d)[i]
        IN  /\ c.op = "setSignature"
            /\ ~IsSignatureOf(c.sig, heap[d].hash, c.key)
            /\ i <= Len(Approvals(d))

\* C6: makeDeploy returns a Deploy with an empty approvals array of its own,
\* and a signDeploy or setSignature call on one Deploy leaves the approvals of
\* every other Deploy as they were.
C6_IndependentApprovals ==
    [][/\ (ret'.op = "makeDeploy" /\ Len(heap') > Len(heap)) =>
            /\ lists'[heap'[Len(heap')].approvals] = <<>>
            /\ \A d \in 1..Len(heap) : heap[d].approvals # heap'[Len(heap')].approvals
       /\ Len(calls') > Len(calls) =>
            \A d \in 1..Len(heap) :
                d # calls'[Len(calls')].deploy =>
                    lists'[heap'[d].approvals] = lists[heap[d].approvals]
      ]_vars

\* two Deploys built from the same params, session and payment, one approved
\* and one not
C6_Witness ==
    \E d1, d2 \in 1..Len(heap) :
        /\ d1 # d2
        /\ assembled[d1] = assembled[d2]
        /\ Len(Approvals(d1)) > 0
        /\ Len(Approvals(d2)) = 0

\* the slots of wrapper w that hold an item
Populated(w) == {i \in 1..Len(SlotNames) : w[SlotNames[i]] # Undefined}

\* the JSON name of each variant, by tag
VariantNames ==
    <<"ModuleBytes", "StoredContractByHash", "StoredContractByName",
      "StoredVersionedContractByHash", "StoredVersionedContractByName", "Transfer">>

\* C7: toBytes() of a wrapper throws when no slot or more than one slot holds
\* an item, and gives the item's own bytes when exactly one does.
C7_ToBytesNeedsOneSlot ==
    ret.op = "toBytes" =>
        IF Cardinality(Populated(ret.of)) = 1
        THEN \A i \in Populated(ret.of) :
                ret.value = Ok(ExecutableDeployItem_toBytes(ret.of[SlotNames[i]]))
        ELSE IsThrown(ret.value)

\* C8: a wrapper that fromExecutionDeployItem or a new* factory returns holds
\* exactly one item, in the slot of that item's tag.
FactoryOps ==
    {"fromExecutionDeployItem", "newModuleBytes", "newStoredContractByHash",
     "newStoredContractByName", "newStoredVersionContractByHash",
     "newStoredVersionContractByName", "newTransfer"}

C8_FactoriesFillOneSlot ==
    (ret.op \in FactoryOps /\ ~IsThrown(ret.value)) =>
        /\ Cardinality(Populated(ret.value)) = 1
        /\ \A i \in Populated(ret.value) : ret.value[SlotNames[i]].tag = i - 1

\* a factory has returned a StoredContractByHash wrapper
C8_Witness ==
    /\ ret.op = "fromExecutionDeployItem"
    /\ isStoredContractByHash(ret.value)
    /\ ret.value.storedContractByHash.tag = 1

\* C9: the six JSON names are pairwise distinct, and a wrapper that holds one
\* variant is written by deployToJson with exactly the key named as that
\* variant.
C9_JsonKeyIsVariantName ==
    (json # Undefined /\ json.from > 0) =>
        /\ \A i, k \in 1..Len(WrapperMembers) :
                i # k => WrapperMembers[i].name # WrapperMembers[k].name
        /\ LET w == heap[json.from].session
           IN  \A i \in Populated(w) :
                    Cardinality(Populated(w)) = 1 =>
                        DOMAIN json.deploy.session = {VariantNames[w[SlotNames[i]].tag + 1]}

\* C10: deployFromJson of what deployToJson wrote gives a Deploy whose payment
\* and session wrappers equal the original ones, field for field.
C10_JsonRoundTrip ==
    (ret.op = "deployFromJson" /\ ret.from > 0) =>
        /\ ret.value # Undefined
        /\ ret.value.session = heap[ret.from].session
        /\ ret.value.payment = heap[ret.from].payment

\* the class of an item, told by the fields it has
ClassOf(item) ==
    IF "moduleBytes" \in DOMAIN item THEN "ModuleBytes"
    ELSE IF "hash" \in DOMAIN item
         THEN (IF "version" \in DOMAIN item THEN "StoredVersionedContractByHash"
               ELSE "StoredContractByHash")
    ELSE IF "name" \in DOMAIN item
         THEN (IF "version" \in DOMAIN item THEN "StoredVersionedContractByName"
               ELSE "StoredContractByName")
    ELSE "Transfer"

\* the discriminant tags of the six variants
VariantTags ==
    [ModuleBytes |-> 0, StoredContractByHash |-> 1, StoredContractByName |-> 2,
     StoredVersionedContractByHash |-> 3, StoredVersionedContractByName |-> 4,
     Transfer |-> 5]

\* the one item a wrapper holds in the toBytes() call that has just returned
EncodedItem == ret.of[SlotNames[CHOOSE i \in Populated(ret.of) : TRUE]]

EncodedOne == ret.op = "toBytes" /\ Cardinality(Populated(ret.of)) = 1

\* C11: the first byte of an item's toBytes() is the tag of its variant
\* (ModuleBytes 0, StoredContractByHash 1, StoredContractByName 2,
\* StoredVersionedContractByHash 3, StoredVersionedContractByName 4,
\* Transfer 5), and no item of another variant encodes to the same bytes.
C11_TagIsFirstByte ==
    EncodedOne =>
        /\ ~IsThrown(ret.value)
        /\ ret.value.value[1] = VariantTags[ClassOf(EncodedItem)]
        /\ \A other \in ItemInputs :
                ClassOf(other) # ClassOf(EncodedItem) =>
                    ExecutableDeployItem_toBytes(other) # ret.value.value

\* toBytes() of a StoredVersionedContractByName wrapper has returned
C11_Witness ==
    /\ EncodedOne
    /\ ClassOf(EncodedItem) = "StoredVersionedContractByName"
    /\ ret.value.value[1] = 4

\* a 32-bit count, little-endian
Count32(n) == <<n % 256, (n \div 256) % 256, (n \div 65536) % 256, (n \div 16777216) % 256>>

LengthPrefixed(bytes) == Count32(Len(bytes)) \o bytes

OptionalVersion(version) ==
    IF version = Null THEN <<0>> ELSE <<1>> \o Count32(version.value)

\* the fields of an item after its tag, in the order of the table
FieldsOf(item) ==
    LET c == ClassOf(item)
        args == LengthPrefixed(RuntimeArgs_toBytes(item.args))
    IN  CASE c = "ModuleBytes" -> LengthPrefixed(item.moduleBytes) \o args
          [] c = "StoredContractByHash" ->
                item.hash \o LengthPrefixed(item.entryPoint) \o args
          [] c = "StoredContractByName" ->
                LengthPrefixed(item.name) \o LengthPrefixed(item.entryPoint) \o args
          [] c = "StoredVersionedContractByHash" ->
                item.hash \o OptionalVersion(item.version)
                    \o LengthPrefixed(item.entryPoint) \o args
          [] c = "StoredVersionedContractByName" ->
                LengthPrefixed(item.name) \o OptionalVersion(item.version)
                    \o LengthPrefixed(item.entryPoint) \o args
          [] c = "Transfer" -> args

\* C12: after the tag byte, an item's toBytes() is its fields in the order of
\* the table, ending with the length-prefixed bytes of the argument map; an
\* optional version is the byte 0 when null and 1 followed by the 32-bit
\* version otherwise.
C12_FieldsInTableOrder ==
    EncodedOne =>
        /\ ~IsThrown(ret.value)
        /\ Tail(ret.value.value) = FieldsOf(EncodedItem)

\* toBytes() of a versioned by-hash item with version 1 and arguments has returned
C12_Witness ==
    /\ EncodedOne
    /\ ClassOf(EncodedItem) = "StoredVersionedContractByHash"
    /\ EncodedItem.version = Num(1)
    /\ EncodedItem.args # <<>>

\* a 64-bit number, little-endian (the numbers of the model are below 2^31)
Count64(n) == Count32(n) \o <<0, 0, 0, 0>>

\* the bytes of a header, field by field
HeaderLayout(h) ==
    PublicKey_toBytes(h.account)
        \o Count64(h.timestamp) \o Count64(h.ttl) \o Count64(h.gasPrice)
        \o h.bodyHash
        \o Count32(Len(h.dependencies)) \o Flatten(h.dependencies)
        \o LengthPrefixed(h.chainName)

\* C13: the bytes of a header are account, timestamp, ttl and gasPrice as
\* 64-bit numbers, bodyHash raw, the count of the dependencies followed by
\* each hash raw in list order, and the length-prefixed chainName, in this
\* order.
C13_HeaderLayout ==
    ret.op = "serializeHeader" => ret.value = HeaderLayout(heap[ret.deploy].header)

\* the header of a Deploy with two dependencies has been serialized
C13_Witness ==
    /\ ret.op = "serializeHeader"
    /\ Len(heap[ret.deploy].header.dependencies) = 2
    /\ heap[ret.deploy].header.ttl # heap[ret.deploy].header.gasPrice

\* the entries of a list whose value occurs exactly once in it, in order
OccurringOnce(deps) ==
    SelectSeq(deps, LAMBDA d : Cardinality({i \in 1..Len(deps) : deps[i] = d}) = 1)

\* C17: the dependencies of a DeployParams, and of the header of a Deploy made
\* from it, are the entries of the list given whose value occurs exactly once
\* in it, in their order; no copy of a repeated value is kept.
C17_RepeatedDependenciesDropped ==
    /\ params # Undefined =>
            /\ params.dependencies = OccurringOnce(given.dependencies)
            /\ \A i, k \in 1..Len(params.dependencies) :
                    i # k => params.dependencies[i] # params.dependencies[k]
    /\ \A d \in 1..Len(heap) :
            heap[d].header.dependencies = OccurringOnce(made[d].given.dependencies)

\* a Deploy has been made from a list of three with one hash given twice
C17_Witness ==
    \E d \in 1..Len(heap) :
        /\ Len(made[d].given.dependencies) = 3
        /\ Len(heap[d].header.dependencies) = 1
        /\ made[d].given.dependencies[1] = made[d].given.dependencies[3]

\* two makeDeploy calls were given equal arguments
SameInputs(a, b) ==
    /\ [a.given EXCEPT !.at = 0] = [b.given EXCEPT !.at = 0]
    /\ a.session = b.session
    /\ a.payment = b.payment

\* C14: two Deploys made from equal account, chain name, gas price, ttl,
\* dependencies, explicit timestamp, session and payment have equal headers
\* and equal hashes.
C14_MakeDeployDeterministic ==
    \A d1, d2 \in 1..Len(heap) :
        (SameInputs(made[d1], made[d2]) /\ made[d1].given.timestamp # Undefined) =>
            /\ heap[d1].header = heap[d2].header
            /\ heap[d1].hash = heap[d2].hash

\* C15 as stated: without an explicit timestamp, the header timestamp of a
\* Deploy is the clock time of its makeDeploy call.
C15_TimestampOfMakeDeploy ==
    \A d \in 1..Len(heap) :
        made[d].given.timestamp = Undefined => heap[d].header.timestamp = made[d].at

\* C15 amended: without an explicit timestamp, the header timestamp of a
\* Deploy is the clock time at which its DeployParams was constructed,
\* however much later makeDeploy is called.
C15_TimestampOfParams ==
    \A d \in 1..Len(heap) :
        made[d].given.timestamp = Undefined => heap[d].header.timestamp = made[d].given.at

\* two Deploys made at different times from one DeployParams built earlier
\* without a timestamp
C15_Witness ==
    \E d1, d2 \in 1..Len(heap) :
        /\ made[d1].given = made[d2].given
        /\ made[d1].given.timestamp = Undefined
        /\ made[d1].given.at < made[d1].at
        /\ made[d1].at < made[d2].at

\* C16: with an explicit timestamp t, 0 included, the header of the Deploy
\* has timestamp t and the account, ttl, gasPrice and chainName of the
\* params, whatever the clock says.
C16_ExplicitTimestampKept ==
    \A d \in 1..Len(heap) :
        LET g == made[d].given
        IN  g.timestamp # Undefined =>
                /\ heap[d].header.timestamp = g.timestamp.value
                /\ heap[d].header.account = g.accountPublicKey
                /\ heap[d].header.ttl = (IF g.ttl = Undefined THEN DefaultTtl ELSE g.ttl.value)
                /\ heap[d].header.gasPrice =
                        (IF g.gasPrice = Undefined THEN DefaultGasPrice ELSE g.gasPrice.value)
                /\ heap[d].header.chainName = g.chainName

\* the argument map of the Transfer that newTransfer has just returned
TransferArgs == ret.value.transfer.args

BuiltTransfer == ret.op = "newTransfer" /\ ~IsThrown(ret.value)

\* the absent optional of a 64-bit number
AbsentId == [bytes |-> <<0>>, clType |-> [encoding |-> <<13, 5>>]]

\* the present optional holding the 64-bit number n
PresentId(n) == [bytes |-> <<1>> \o Count64(n), clType |-> [encoding |-> <<13, 5>>]]

\* C18: a Transfer without a target fails with an error and gives no
\* Transfer; one with only an amount and a target is built, and its argument
\* map holds an id entry that is the absent optional.
C18_TransferNeedsTarget ==
    ret.op = "newTransfer" =>
        /\ ret.target = Undefined => IsThrown(ret.value)
        /\ (ret.target # Undefined /\ ret.sourcePurse = Undefined /\ ret.id = Null) =>
                /\ ~IsThrown(ret.value)
                /\ isTransfer(ret.value)
                /\ RuntimeArgs_get(TransferArgs, Str_id) = AbsentId

\* a Transfer without a target has been refused after one with only an
\* amount and a target was built
C18_Witness ==
    /\ ret.op = "newTransfer"
    /\ ret.target = Undefined
    /\ IsThrown(ret.value)
    /\ wrapper # Undefined
    /\ isTransfer(wrapper)
    /\ Len(wrapper.transfer.args) = 3
    /\ RuntimeArgs_get(wrapper.transfer.args, Str_id) = AbsentId

\* C19: a Transfer that was built has an id entry in its argument map: the
\* absent optional exactly when no id was given, and the present optional
\* holding n for every number n given, 0 included.
C19_IdAlwaysPresent ==
    BuiltTransfer =>
        /\ RuntimeArgs_has(TransferArgs, Str_id)
        /\ RuntimeArgs_get(TransferArgs, Str_id) =
                (IF ret.id = Null THEN AbsentId ELSE PresentId(ret.id.value))

\* C20: the argument map of a Transfer has the keys amount, target and id,
\* and source exactly when a source purse was given; the target argument is
\* the purse reference when the target is one, and the account hash of the
\* public key, never the key, when the target is a public key.
C20_TransferKeys ==
    BuiltTransfer =>
        /\ {TransferArgs[i].name : i \in 1..Len(TransferArgs)} =
                {Str_amount, Str_target, Str_id}
                    \cup (IF ret.sourcePurse # Undefined THEN {Str_source} ELSE {})
        /\ \A i, k \in 1..Len(TransferArgs) :
                i # k => TransferArgs[i].name # TransferArgs[k].name
        /\ LET t == RuntimeArgs_get(TransferArgs, Str_target)
           IN  IF InstanceOfURef(ret.target)
               THEN /\ t.bytes = ret.target.uRefAddr \o <<ret.target.accessRights>>
                    /\ t.clType = CLTypeHelper_uref
               ELSE /\ t.bytes = PublicKey_toAccountHash(ret.target)
                    /\ t.bytes # ret.target.rawPublicKey
                    /\ t.bytes # PublicKey_toBytes(ret.target)

\* a Transfer to a public key from a source purse has been built
C20_Witness ==
    /\ BuiltTransfer
    /\ InstanceOfPublicKey(ret.target)
    /\ ret.sourcePurse # Undefined
    /\ Len(TransferArgs) = 4

\* C21: toBytes() of an Option is the single byte 0 when the value is absent,
\* and the byte 1 followed by the bytes of the value when it is present; the
\* type given to the constructor does not change the bytes.
C21_OptionBytes ==
    ret.op = "Option.toBytes" =>
        ret.value = (IF ret.of.t = Null THEN <<0>> ELSE <<1>> \o ret.of.t.bytes)

\* toBytes() has returned for a present value built with a type that is not
\* the type of the value
C21_Witness ==
    /\ ret.op = "Option.toBytes"
    /\ ret.of.t # Null
    /\ Len(ret.of.t.bytes) > 1
    /\ ret.of.innerType # Undefined
    /\ ret.of.innerType # ret.of.t.clType

C23_NoPartialEffect ==
    [][(ret'.op \in {"makeDeploy", "signDeploy", "setSignature"} /\ ret'.threw) =>
            (heap' = heap /\ lists' = lists /\ assembled' = assembled)]_vars

\* a signDeploy or setSignature has thrown on a Deploy that has an approval
C23_Witness ==
    /\ ret.op \in {"signDeploy", "setSignature"}
    /\ ret.threw
    /\ Len(lists[heap[ret.deploy].approvals]) = 1
    /\ Len(heap) = 1

\* the text an approval carries for the bytes of a signature under a key of
\* the algorithm alg: the tag of the algorithm, then base 16
TagOf(alg) == IF alg = SignatureAlgorithm.Ed25519 THEN <<48, 49>> ELSE <<48, 50>>

\* the algorithm of the key a call was made with
AlgorithmOf(c) ==
    IF c.op = "signDeploy" THEN c.key.signatureAlgorithm
    ELSE PublicKey_signatureAlgorithm(c.key)

\* the signature bytes of a call
SignatureOf(c, d) ==
    IF c.op = "signDeploy" THEN AsymmetricKey_sign(c.key, heap[d].hash) ELSE c.sig

\* C24: callers that hold the same Deploy make their signDeploy and
\* setSignature calls in any order, each call running to its end: every call
\* pushes one entry behind the entries that are there and changes none of
\* them, so the approvals are one well-formed entry per call, in call order.
C24_NoLostAppend ==
    /\ [](\A d \in 1..Len(heap) :
            /\ Len(Approvals(d)) = Len(CallsOn(d))
            /\ \A i \in 1..Len(CallsOn(d)) :
                    LET c == CallsOn(d)[i]
                    IN  Approvals(d)[i] =
                            Approval(SignerOf(c),
                                     TagOf(AlgorithmOf(c)) \o encodeBase16(SignatureOf(c, d))))
    /\ [][Len(calls') > Len(calls) =>
            LET c == calls'[Len(calls')]
                a == heap[c.deploy].approvals
            IN  /\ calls' = Append(calls, c)
                /\ Len(lists'[a]) = Len(lists[a]) + 1
                /\ SubSeq(lists'[a], 1, Len(lists[a])) = lists[a]
                /\ \A b \in 1..Len(lists) : b # a => lists'[b] = lists[b]]_vars

\* two callers with different keys have each made a call on the same Deploy,
\* one signDeploy and one setSignature
C24_Witness ==
    \E d \in 1..Len(heap) :
        /\ Len(CallsOn(d)) = 2
        /\ CallsOn(d)[1].op # CallsOn(d)[2].op
        /\ SignerOf(CallsOn(d)[1]) # SignerOf(CallsOn(d)[2])
        /\ Len(Approvals(d)) = 2
        /\ Approvals(d)[1].signer = SignerOf(CallsOn(d)[1])

\* C25: the signature of every approval starts with the tag of the algorithm
\* of the key the call was made with, 01 for Ed25519 and 02 for Secp256K1,
\* and goes on with the signature in base 16: none is missing and none
\* carries the tag of the other algorithm.
C25_SignatureTagged ==
    \A d \in 1..Len(heap) : \A i \in 1..Len(Approvals(d)) :
        LET sig == Approvals(d)[i].signature
            c == CallsOn(d)[i]
        IN  /\ i <= Len(CallsOn(d))
            /\ Len(sig) > 2
            /\ SubSeq(sig, 1, 2) = (IF AlgorithmOf(c) = "ed25519" THEN <<48, 49>> ELSE <<48, 50>>)
            /\ SubSeq(sig, 3, Len(sig)) = encodeBase16(SignatureOf(c, d))
            /\ SubSeq(Approvals(d)[i].signer, 1, 2) = SubSeq(sig, 1, 2)

\* a Deploy carries an approval of a Secp256K1 key made by signDeploy and one
\* of an Ed25519 key made by setSignature
C25_Witness ==
    \E d \in 1..Len(heap) : \E i, k \in 1..Len(CallsOn(d)) :
        /\ CallsOn(d)[i].op = "signDeploy"
        /\ AlgorithmOf(CallsOn(d)[i]) = SignatureAlgorithm.Secp256K1
        /\ CallsOn(d)[k].op = "setSignature"
        /\ AlgorithmOf(CallsOn(d)[k]) = SignatureAlgorithm.Ed25519
        /\ Len(Approvals(d)) = 2

\* the tag of the variant each new* factory is named after
FactoryTag(op) ==
    CASE op = "newModuleBytes" -> 0
      [] op = "newStoredContractByHash" -> 1
      [] op = "newStoredContractByName" -> 2
      [] op = "newStoredVersionContractByHash" -> 3
      [] op = "newStoredVersionContractByName" -> 4
      [] op = "newTransfer" -> 5

\* C26: the wrapper a new* factory returns holds the variant of the factory's
\* name: its one populated slot is the slot of that variant (so the is*
\* method of that name answers true and the others false) and its toBytes()
\* starts with that variant's tag; newStoredContractByHash gives tag 1 and
\* newStoredVersionContractByHash tag 3.
C26_FactoryBuildsNamedVariant ==
    (ret.op \in FactoryOps \ {"fromExecutionDeployItem"} /\ ~IsThrown(ret.value)) =>
        /\ Populated(ret.value) = {FactoryTag(ret.op) + 1}
        /\ isStoredContractByHash(ret.value) = (ret.op = "newStoredContractByHash")
        /\ isStoredVersionContractByHash(ret.value) = (ret.op = "newStoredVersionContractByHash")
        /\ ~IsThrown(Wrapper_toBytes(ret.value))
        /\ Wrapper_toBytes(ret.value).value[1] = FactoryTag(ret.op)

\* the tables onDeployProcessedEvent fills from the transforms of a deploy
TransformModels == {"Transfer", "GenesisAccountTransfer", "Bid", "Withdrawal"}

\* a promise that settled to a created row
IsRow(state) == state # Undefined /\ ~IsThrown(state) /\ state # Ok(False)

\* the storeEntity('Deploy', ...) promise of the n-th event
DeployPromise(n) ==
    promises[CHOOSE i \in 1..Len(promises) :
                promises[i].event = n /\ promises[i].model = "Deploy"]

\* C27: a Transfer, GenesisAccountTransfer, Bid or Withdrawal row is stored
\* for a DeployProcessed event only when the execution result is Success and
\* the Deploy row of that event was newly stored: never when storeEntity
\* answered false for the Deploy row because the row was there already.
C27_RowsOnlyForNewDeploy ==
    \A i \in 1..Len(promises) :
        (promises[i].model \in TransformModels /\ IsRow(promises[i].state)) =>
            /\ ~Falsy(Get(events[promises[i].event], "DeployProcessed").execution_result.Success)
            /\ DeployPromise(promises[i].event).state # Ok(False)

\* C28: storeEntity answers false when create fails on a stored key, and the
\* table keeps its one row of that key; it throws the error of any other
\* failure again, the rows unchanged; and it answers the created row, now in
\* the table, when create succeeds.
C28_StoreEntityOutcome ==
    /\ [](ret.op = "storeEntity" =>
            /\ IF ~IsThrown(ret.given)
               THEN /\ ret.value = ret.given
                    /\ ret.value.value \in db[promises[ret.at].model]
               ELSE IF ret.given.message = "UniqueConstraintError"
               THEN /\ ret.value = Ok(False)
                    /\ Cardinality({r \in db[promises[ret.at].model] :
                                        r.key = promises[ret.at].key}) = 1
               ELSE /\ IsThrown(ret.value)
                    /\ ret.value = ret.given
            /\ promises[ret.at].state = ret.value)
    /\ [][(ret'.op = "storeEntity" /\ promises' # promises) =>
            IF IsThrown(ret'.given) THEN db' = db
            ELSE db' = [db EXCEPT ![promises[ret'.at].model] = @ \cup {ret'.value.value}]]_vars

\* storeEntity has answered false for a Deploy row that was stored before,
\* and has thrown the error of a failed create again
C28_Witness ==
    /\ ret.op = "storeEntity"
    /\ ret.value = Ok(False)
    /\ promises[ret.at].model = "Deploy"
    /\ \E i \in 1..Len(promises) : IsRow(promises[i].state) /\ promises[i].model = "Deploy"
    /\ \E i \in 1..Len(promises) :
            IsThrown(promises[i].state) /\ promises[i].state.message = "ConnectionError"

\* the keys onEvent tests, in the order of its tests, with the raw table and
\* the typed handler of each
EventKeys == <<"DeployAccepted", "DeployProcessed", "BlockAdded", "FinalitySignature", "Step">>

RawModels ==
    <<"RawDeployAcceptedEvent", "RawDeployProcessedEvent", "RawBlockAddedEvent",
      "RawFinalitySignatureEvent", "RawStepEvent", "RawUnrecognizedEvent">>

Handlers ==
    <<"none", "onDeployProcessedEvent", "onBlockAddedEvent", "onFinalitySignatureEvent",
      "none", "none">>

\* the tables each typed handler stores in before its first await
HandlerModels(handler) ==
    CASE handler = "onDeployProcessedEvent" -> {"Deploy"} \cup TransformModels
      [] handler = "onBlockAddedEvent" -> {"Block", "Era", "getEraInfoBySwitchBlockHeight"}
      [] handler = "onFinalitySignatureEvent" -> {"FinalitySignature"}
      [] OTHER -> {}

\* the first of EventKeys the event holds a value for, 6 when it holds none
Matching(event) ==
    IF \E k \in 1..Len(EventKeys) : ~Falsy(Get(event, EventKeys[k]))
    THEN CHOOSE k \in 1..Len(EventKeys) :
            /\ ~Falsy(Get(event, EventKeys[k]))
            /\ \A j \in 1..(k - 1) : Falsy(Get(event, EventKeys[j]))
    ELSE Len(EventKeys) + 1

\* C29: onEvent hands every event to storeEntity for exactly one raw table,
\* the table of the first of DeployAccepted, DeployProcessed, BlockAdded,
\* FinalitySignature, Step that the event holds, or RawUnrecognizedEvent with
\* the event's first key (the empty string when it has none) as eventType;
\* it calls the typed handler of that key and no other, and none for an
\* unrecognized event.
C29_OneRawTable ==
    ret.op = "onEvent" =>
        LET event == events[Len(events)]
            k == Matching(event)
            issued == {i \in (ret.at + 1)..Len(promises) : promises[i].event = Len(events)}
            raw == {i \in issued : \E m \in 1..Len(RawModels) : promises[i].model = RawModels[m]}
        IN  /\ Cardinality(raw) = 1
            /\ \A i \in raw :
                /\ i = ret.at + 1
                /\ promises[i].model = RawModels[k]
                /\ k = Len(EventKeys) + 1 =>
                      promises[i].value = (IF Len(event) > 0 THEN event[1].name ELSE "")
            /\ ret.handler = Handlers[k]
            /\ \A i \in issued \ raw : promises[i].model \in HandlerModels(Handlers[k])
            /\ Handlers[k] # "none" =>
                  \E i \in issued \ raw : promises[i].model \in HandlerModels(Handlers[k])

\* an event whose first key is Step and which also holds FinalitySignature has
\* gone to RawFinalitySignatureEvent and to onFinalitySignatureEvent
C29_Witness ==
    /\ ret.op = "onEvent"
    /\ Len(events[Len(events)]) = 2
    /\ events[Len(events)][1].name = "Step"
    /\ ~Falsy(events[Len(events)][1].value)
    /\ ret.handler = "onFinalitySignatureEvent"
    /\ promises[Len(promises)].model = "FinalitySignature"
    /\ promises[Len(promises) - 1].model = "RawFinalitySignatureEvent"

====
